---- MODULE Spec2Model ----
(***************************************************************************)
(* Model of ecologits-go: the impact estimation pipeline                   *)
(* (impact.ComputeImpacts), the ServerInfra methods it calls and the       *)
(* catalog loader (aimodel.NewAIModel).                                    *)
(*                                                                         *)
(* Specifications.                                                         *)
(*   Spec            one ComputeImpacts call at a time, stage by stage     *)
(*   SpecCalls       direct calls of single functions                     *)
(*   SpecCatalog     NewAIModel on a catalog, then ComputeImpacts          *)
(*   SpecConcurrent  several ComputeImpacts calls, stages interleaved      *)
(*                                                                         *)
(* Numbers.  The program computes with float64.  The model computes with   *)
(* exact rationals <<numerator, denominator>> (denominator > 0, lowest     *)
(* terms), so 1.96 is 49/25 and 1.2 is 6/5.  Rounding, infinities and NaN  *)
(* of float64 are outside the model; every input is a finite number.       *)
(*                                                                         *)
(* Units.  Energy is in kWh, latency in seconds, memory in GB, as in the   *)
(* program.  Quantities of the three impact metrics are counted in         *)
(*   ADPe: 10^-13 kgSbeq,  GWP: 10^-5 kgCO2eq,  PE: 10^-3 MJ               *)
(* so that the electricity-mix literals 0.0000000985548, 0.67978 and       *)
(* 11.358 are the integers 985548, 67978 and 11358.  Every operation on a  *)
(* metric quantity is linear in it, so the change of unit is exact.        *)
(***************************************************************************)
EXTENDS Integers, Sequences, FiniteSets, TLC

\* ------------------------------------------------------------ rationals

Abs(x) == IF x < 0 THEN -x ELSE x

RECURSIVE GCD(_, _)
GCD(a, b) == IF b = 0 THEN a ELSE GCD(b, a % b)

LCM(a, b) == (a \div GCD(a, b)) * b

Rat(n, d) ==
    LET g == GCD(Abs(n), Abs(d))
        s == IF d < 0 THEN -1 ELSE 1
    IN  <<(s * n) \div g, (s * d) \div g>>

RInt(k) == <<k, 1>>

RZero == RInt(0)

RNeg(x) == <<-x[1], x[2]>>

RAdd(x, y) ==
    LET l == LCM(x[2], y[2])
    IN  Rat(x[1] * (l \div x[2]) + y[1] * (l \div y[2]), l)

RSub(x, y) == RAdd(x, RNeg(y))

RMul(x, y) ==
    LET g1 == GCD(Abs(x[1]), y[2])
        g2 == GCD(Abs(y[1]), x[2])
    IN  Rat((x[1] \div g1) * (y[1] \div g2), (x[2] \div g2) * (y[2] \div g1))

\* x / y for y # 0
RDiv(x, y) == RMul(x, Rat(y[2], y[1]))

RLe(x, y) ==
    LET l == LCM(x[2], y[2])
    IN  x[1] * (l \div x[2]) <= y[1] * (l \div y[2])

RLt(x, y) == ~RLe(y, x)

RMax(x, y) == IF RLe(x, y) THEN y ELSE x

\* math.Ceil followed by the conversion to int
RCeil(x) == -((-x[1]) \div x[2])

\* ------------------------------------------------------- common.RangeValue

RangeValue(lo, hi) == [Min |-> lo, Max |-> hi]

ZeroRange == RangeValue(RZero, RZero)

\* the literal 1.96 of the 95% confidence interval
Z95 == Rat(49, 25)

NoError == "nil"

\* ----------------------------------------------------- ServerInfra methods
\* Each method returns [val, err]; err = NoError is Go's nil error.
\* ComputeImpacts reaches these methods through its server argument
\* (GPURequiredCount, GenerationLatency, GPUEnergyKWH, ServerEnergyBaseline,
\* RequestEnergy); their bodies are those of ServerInfra.

\* faulty variant: the quotient is truncated instead of rounded up
GpuRequiredCountTruncated(s, modelRequiredMemory) ==
    IF RLe(modelRequiredMemory, RZero)
    THEN [val |-> 0, err |-> "model required memory must be greater than 0"]
    ELSE IF RLe(s.Gpu.AvailMemoryGB, RZero)
    THEN [val |-> 0, err |-> "available GPU count must be greater than 0"]
    ELSE [val |-> -RCeil(RNeg(RDiv(modelRequiredMemory, s.Gpu.AvailMemoryGB))),
          err |-> NoError]

\* faulty variant: a required memory of zero or less is not rejected
GpuRequiredCountNoMemoryCheck(s, modelRequiredMemory) ==
    IF RLe(s.Gpu.AvailMemoryGB, RZero)
    THEN [val |-> 0, err |-> "available GPU count must be greater than 0"]
    ELSE [val |-> RCeil(RDiv(modelRequiredMemory, s.Gpu.AvailMemoryGB)),
          err |-> NoError]

GpuRequiredCount(s, modelRequiredMemory) ==
    IF RLe(modelRequiredMemory, RZero)
    THEN [val |-> 0, err |-> "model required memory must be greater than 0"]
    ELSE IF RLe(s.Gpu.AvailMemoryGB, RZero)
    THEN [val |-> 0, err |-> "available GPU count must be greater than 0"]
    ELSE [val |-> RCeil(RDiv(modelRequiredMemory, s.Gpu.AvailMemoryGB)),
          err |-> NoError]

\* faulty variant: the baseline is not prorated by the share of accelerators
ServerEnergyBaselineWholeServer(s, tokenGenLatencySeconds, gpuRequiredCount) ==
    IF RLe(tokenGenLatencySeconds, RZero)
    THEN [val |-> RZero, err |-> "token generation latency must be greater than 0"]
    ELSE IF gpuRequiredCount <= 0 \/ gpuRequiredCount > s.AvailableGpuCount
    THEN [val |-> RZero,
          err |-> "gpuRequiredCount must be between 1 and the number of available GPUs"]
    ELSE IF RLe(s.PowerConsumptionKW, RZero)
    THEN [val |-> RZero, err |-> "power consumption must be greater than 0"]
    ELSE [val |-> RMul(RDiv(tokenGenLatencySeconds, RInt(3600)), s.PowerConsumptionKW),
          err |-> NoError]

\* faulty variant: the count is not compared with the available accelerators
ServerEnergyBaselineNoCapacityCheck(s, tokenGenLatencySeconds, gpuRequiredCount) ==
    IF RLe(tokenGenLatencySeconds, RZero)
    THEN [val |-> RZero, err |-> "token generation latency must be greater than 0"]
    ELSE IF gpuRequiredCount <= 0
    THEN [val |-> RZero,
          err |-> "gpuRequiredCount must be between 1 and the number of available GPUs"]
    ELSE IF RLe(s.PowerConsumptionKW, RZero)
    THEN [val |-> RZero, err |-> "power consumption must be greater than 0"]
    ELSE [val |-> RMul(RMul(RDiv(tokenGenLatencySeconds, RInt(3600)),
                            s.PowerConsumptionKW),
                       RDiv(RInt(gpuRequiredCount), RInt(s.AvailableGpuCount))),
          err |-> NoError]

ServerEnergyBaseline(s, tokenGenLatencySeconds, gpuRequiredCount) ==
    IF RLe(tokenGenLatencySeconds, RZero)
    THEN [val |-> RZero, err |-> "token generation latency must be greater than 0"]
    ELSE IF gpuRequiredCount <= 0 \/ gpuRequiredCount > s.AvailableGpuCount
    THEN [val |-> RZero,
          err |-> "gpuRequiredCount must be between 1 and the number of available GPUs"]
    ELSE IF RLe(s.PowerConsumptionKW, RZero)
    THEN [val |-> RZero, err |-> "power consumption must be greater than 0"]
    ELSE [val |-> RMul(RMul(RDiv(tokenGenLatencySeconds, RInt(3600)),
                            s.PowerConsumptionKW),
                       RDiv(RInt(gpuRequiredCount), RInt(s.AvailableGpuCount))),
          err |-> NoError]

\* faulty variant: the lower bound is not floored at zero
GpuEnergyKWHUnclipped(s, modelActiveParamCount, outputTokenCount) ==
    IF RLe(modelActiveParamCount, RZero)
    THEN [val |-> ZeroRange, err |-> "modelActiveParamCount must be greater than 0"]
    ELSE IF RLe(outputTokenCount, RZero)
    THEN [val |-> ZeroRange, err |-> "outputTokenCount must be greater than 0"]
    ELSE IF \/ RLe(s.Gpu.EnergyAlpha, RZero)
            \/ RLe(s.Gpu.EnergyBeta, RZero)
            \/ RLe(s.Gpu.EnergyStdev, RZero)
    THEN [val |-> ZeroRange, err |-> "GPU energy parameters must be greater than 0"]
    ELSE LET gpuEnergyPerTokenMean ==
                 RAdd(RMul(s.Gpu.EnergyAlpha, modelActiveParamCount), s.Gpu.EnergyBeta)
             gpuEnergyMin ==
                 RMul(outputTokenCount,
                      RSub(gpuEnergyPerTokenMean, RMul(Z95, s.Gpu.EnergyStdev)))
             gpuEnergyMax ==
                 RMul(outputTokenCount,
                      RAdd(gpuEnergyPerTokenMean, RMul(Z95, s.Gpu.EnergyStdev)))
         IN  [val |-> RangeValue(gpuEnergyMin, gpuEnergyMax), err |-> NoError]

GpuEnergyKWH(s, modelActiveParamCount, outputTokenCount) ==
    IF RLe(modelActiveParamCount, RZero)
    THEN [val |-> ZeroRange, err |-> "modelActiveParamCount must be greater than 0"]
    ELSE IF RLe(outputTokenCount, RZero)
    THEN [val |-> ZeroRange, err |-> "outputTokenCount must be greater than 0"]
    ELSE IF \/ RLe(s.Gpu.EnergyAlpha, RZero)
            \/ RLe(s.Gpu.EnergyBeta, RZero)
            \/ RLe(s.Gpu.EnergyStdev, RZero)
    THEN [val |-> ZeroRange, err |-> "GPU energy parameters must be greater than 0"]
    ELSE LET gpuEnergyPerTokenMean ==
                 RAdd(RMul(s.Gpu.EnergyAlpha, modelActiveParamCount), s.Gpu.EnergyBeta)
             gpuEnergyMin ==
                 RMul(outputTokenCount,
                      RSub(gpuEnergyPerTokenMean, RMul(Z95, s.Gpu.EnergyStdev)))
             gpuEnergyMax ==
                 RMul(outputTokenCount,
                      RAdd(gpuEnergyPerTokenMean, RMul(Z95, s.Gpu.EnergyStdev)))
         IN  [val |-> RangeValue(RMax(RZero, gpuEnergyMin), gpuEnergyMax),
              err |-> NoError]

\* faulty variant: the candidate is also returned when its upper bound equals the measured latency
GenerationLatencyAtMost(s, modelActiveParamCount, outputTokenCount, requestLatencySecs) ==
    IF RLe(modelActiveParamCount, RZero)
    THEN [val |-> ZeroRange, err |-> "modelActiveParamCount must be greater than 0"]
    ELSE IF RLe(outputTokenCount, RZero)
    THEN [val |-> ZeroRange, err |-> "outputTokenCount must be greater than 0"]
    ELSE IF RLe(requestLatencySecs, RZero)
    THEN [val |-> ZeroRange, err |-> "requestLatencySecs must be greater than 0"]
    ELSE IF \/ RLe(s.Gpu.LatencyAlpha, RZero)
            \/ RLe(s.Gpu.LatencyBeta, RZero)
            \/ RLe(s.Gpu.LatencyStdev, RZero)
    THEN [val |-> ZeroRange, err |-> "GPU latency parameters must be greater than 0"]
    ELSE IF s.AvailableGpuCount <= 0
    THEN [val |-> ZeroRange, err |-> "AvailableGpuCount must be greater than 0"]
    ELSE IF RLe(s.PowerConsumptionKW, RZero)
    THEN [val |-> ZeroRange, err |-> "PowerConsumptionKW must be greater than 0"]
    ELSE LET gpuLatencyPerTokenMean ==
                 RAdd(RMul(s.Gpu.LatencyAlpha, modelActiveParamCount), s.Gpu.LatencyBeta)
             gpuLatencyMin ==
                 RMul(outputTokenCount,
                      RSub(gpuLatencyPerTokenMean, RMul(Z95, s.Gpu.LatencyStdev)))
             gpuLatencyMax ==
                 RMul(outputTokenCount,
                      RAdd(gpuLatencyPerTokenMean, RMul(Z95, s.Gpu.LatencyStdev)))
             gpuLatencyInterval ==
                 RangeValue(RMax(RZero, gpuLatencyMin), gpuLatencyMax)
         IN  IF RLe(gpuLatencyInterval.Max, requestLatencySecs)
             THEN [val |-> gpuLatencyInterval, err |-> NoError]
             ELSE [val |-> RangeValue(requestLatencySecs, requestLatencySecs),
                   err |-> NoError]

\* faulty variant: the override keeps the candidate's lower bound
GenerationLatencyKeepsMin(s, modelActiveParamCount, outputTokenCount, requestLatencySecs) ==
    IF RLe(modelActiveParamCount, RZero)
    THEN [val |-> ZeroRange, err |-> "modelActiveParamCount must be greater than 0"]
    ELSE IF RLe(outputTokenCount, RZero)
    THEN [val |-> ZeroRange, err |-> "outputTokenCount must be greater than 0"]
    ELSE IF RLe(requestLatencySecs, RZero)
    THEN [val |-> ZeroRange, err |-> "requestLatencySecs must be greater than 0"]
    ELSE IF \/ RLe(s.Gpu.LatencyAlpha, RZero)
            \/ RLe(s.Gpu.LatencyBeta, RZero)
            \/ RLe(s.Gpu.LatencyStdev, RZero)
    THEN [val |-> ZeroRange, err |-> "GPU latency parameters must be greater than 0"]
    ELSE IF s.AvailableGpuCount <= 0
    THEN [val |-> ZeroRange, err |-> "AvailableGpuCount must be greater than 0"]
    ELSE IF RLe(s.PowerConsumptionKW, RZero)
    THEN [val |-> ZeroRange, err |-> "PowerConsumptionKW must be greater than 0"]
    ELSE LET gpuLatencyPerTokenMean ==
                 RAdd(RMul(s.Gpu.LatencyAlpha, modelActiveParamCount), s.Gpu.LatencyBeta)
             gpuLatencyMin ==
                 RMul(outputTokenCount,
                      RSub(gpuLatencyPerTokenMean, RMul(Z95, s.Gpu.LatencyStdev)))
             gpuLatencyMax ==
                 RMul(outputTokenCount,
                      RAdd(gpuLatencyPerTokenMean, RMul(Z95, s.Gpu.LatencyStdev)))
             gpuLatencyInterval ==
                 RangeValue(RMax(RZero, gpuLatencyMin), gpuLatencyMax)
         IN  IF RLt(gpuLatencyInterval.Max, requestLatencySecs)
             THEN [val |-> gpuLatencyInterval, err |-> NoError]
             ELSE [val |-> RangeValue(gpuLatencyInterval.Min, requestLatencySecs),
                   err |-> NoError]

\* faulty variant: the server power is not validated
GenerationLatencyNoPowerCheck(s, modelActiveParamCount, outputTokenCount, requestLatencySecs) ==
    IF RLe(modelActiveParamCount, RZero)
    THEN [val |-> ZeroRange, err |-> "modelActiveParamCount must be greater than 0"]
    ELSE IF RLe(outputTokenCount, RZero)
    THEN [val |-> ZeroRange, err |-> "outputTokenCount must be greater than 0"]
    ELSE IF RLe(requestLatencySecs, RZero)
    THEN [val |-> ZeroRange, err |-> "requestLatencySecs must be greater than 0"]
    ELSE IF \/ RLe(s.Gpu.LatencyAlpha, RZero)
            \/ RLe(s.Gpu.LatencyBeta, RZero)
            \/ RLe(s.Gpu.LatencyStdev, RZero)
    THEN [val |-> ZeroRange, err |-> "GPU latency parameters must be greater than 0"]
    ELSE IF s.AvailableGpuCount <= 0
    THEN [val |-> ZeroRange, err |-> "AvailableGpuCount must be greater than 0"]
    ELSE LET gpuLatencyPerTokenMean ==
                 RAdd(RMul(s.Gpu.LatencyAlpha, modelActiveParamCount), s.Gpu.LatencyBeta)
             gpuLatencyMin ==
                 RMul(outputTokenCount,
                      RSub(gpuLatencyPerTokenMean, RMul(Z95, s.Gpu.LatencyStdev)))
             gpuLatencyMax ==
                 RMul(outputTokenCount,
                      RAdd(gpuLatencyPerTokenMean, RMul(Z95, s.Gpu.LatencyStdev)))
             gpuLatencyInterval ==
                 RangeValue(RMax(RZero, gpuLatencyMin), gpuLatencyMax)
         IN  IF RLt(gpuLatencyInterval.Max, requestLatencySecs)
             THEN [val |-> gpuLatencyInterval, err |-> NoError]
             ELSE [val |-> RangeValue(requestLatencySecs, requestLatencySecs),
                   err |-> NoError]

\* faulty variant: the accelerator count of the server is validated first
GenerationLatencyCountFirst(s, modelActiveParamCount, outputTokenCount, requestLatencySecs) ==
    IF s.AvailableGpuCount <= 0
    THEN [val |-> ZeroRange, err |-> "AvailableGpuCount must be greater than 0"]
    ELSE IF RLe(modelActiveParamCount, RZero)
    THEN [val |-> ZeroRange, err |-> "modelActiveParamCount must be greater than 0"]
    ELSE IF RLe(outputTokenCount, RZero)
    THEN [val |-> ZeroRange, err |-> "outputTokenCount must be greater than 0"]
    ELSE IF RLe(requestLatencySecs, RZero)
    THEN [val |-> ZeroRange, err |-> "requestLatencySecs must be greater than 0"]
    ELSE IF \/ RLe(s.Gpu.LatencyAlpha, RZero)
            \/ RLe(s.Gpu.LatencyBeta, RZero)
            \/ RLe(s.Gpu.LatencyStdev, RZero)
    THEN [val |-> ZeroRange, err |-> "GPU latency parameters must be greater than 0"]
    ELSE IF RLe(s.PowerConsumptionKW, RZero)
    THEN [val |-> ZeroRange, err |-> "PowerConsumptionKW must be greater than 0"]
    ELSE LET gpuLatencyPerTokenMean ==
                 RAdd(RMul(s.Gpu.LatencyAlpha, modelActiveParamCount), s.Gpu.LatencyBeta)
             gpuLatencyMin ==
                 RMul(outputTokenCount,
                      RSub(gpuLatencyPerTokenMean, RMul(Z95, s.Gpu.LatencyStdev)))
             gpuLatencyMax ==
                 RMul(outputTokenCount,
                      RAdd(gpuLatencyPerTokenMean, RMul(Z95, s.Gpu.LatencyStdev)))
             gpuLatencyInterval ==
                 RangeValue(RMax(RZero, gpuLatencyMin), gpuLatencyMax)
         IN  IF RLt(gpuLatencyInterval.Max, requestLatencySecs)
             THEN [val |-> gpuLatencyInterval, err |-> NoError]
             ELSE [val |-> RangeValue(requestLatencySecs, requestLatencySecs),
                   err |-> NoError]

\* faulty variant: the estimate is kept when it exceeds the measured latency
GenerationLatencyReversed(s, modelActiveParamCount, outputTokenCount, requestLatencySecs) ==
    IF RLe(modelActiveParamCount, RZero)
    THEN [val |-> ZeroRange, err |-> "modelActiveParamCount must be greater than 0"]
    ELSE IF RLe(outputTokenCount, RZero)
    THEN [val |-> ZeroRange, err |-> "outputTokenCount must be greater than 0"]
    ELSE IF RLe(requestLatencySecs, RZero)
    THEN [val |-> ZeroRange, err |-> "requestLatencySecs must be greater than 0"]
    ELSE IF \/ RLe(s.Gpu.LatencyAlpha, RZero)
            \/ RLe(s.Gpu.LatencyBeta, RZero)
            \/ RLe(s.Gpu.LatencyStdev, RZero)
    THEN [val |-> ZeroRange, err |-> "GPU latency parameters must be greater than 0"]
    ELSE IF s.AvailableGpuCount <= 0
    THEN [val |-> ZeroRange, err |-> "AvailableGpuCount must be greater than 0"]
    ELSE IF RLe(s.PowerConsumptionKW, RZero)
    THEN [val |-> ZeroRange, err |-> "PowerConsumptionKW must be greater than 0"]
    ELSE LET gpuLatencyPerTokenMean ==
                 RAdd(RMul(s.Gpu.LatencyAlpha, modelActiveParamCount), s.Gpu.LatencyBeta)
             gpuLatencyMin ==
                 RMul(outputTokenCount,
                      RSub(gpuLatencyPerTokenMean, RMul(Z95, s.Gpu.LatencyStdev)))
             gpuLatencyMax ==
                 RMul(outputTokenCount,
                      RAdd(gpuLatencyPerTokenMean, RMul(Z95, s.Gpu.LatencyStdev)))
             gpuLatencyInterval ==
                 RangeValue(RMax(RZero, gpuLatencyMin), gpuLatencyMax)
         IN  IF RLt(requestLatencySecs, gpuLatencyInterval.Max)
             THEN [val |-> gpuLatencyInterval, err |-> NoError]
             ELSE [val |-> RangeValue(requestLatencySecs, requestLatencySecs),
                   err |-> NoError]

GenerationLatency(s, modelActiveParamCount, outputTokenCount, requestLatencySecs) ==
    IF RLe(modelActiveParamCount, RZero)
    THEN [val |-> ZeroRange, err |-> "modelActiveParamCount must be greater than 0"]
    ELSE IF RLe(outputTokenCount, RZero)
    THEN [val |-> ZeroRange, err |-> "outputTokenCount must be greater than 0"]
    ELSE IF RLe(requestLatencySecs, RZero)
    THEN [val |-> ZeroRange, err |-> "requestLatencySecs must be greater than 0"]
    ELSE IF \/ RLe(s.Gpu.LatencyAlpha, RZero)
            \/ RLe(s.Gpu.LatencyBeta, RZero)
            \/ RLe(s.Gpu.LatencyStdev, RZero)
    THEN [val |-> ZeroRange, err |-> "GPU latency parameters must be greater than 0"]
    ELSE IF s.AvailableGpuCount <= 0
    THEN [val |-> ZeroRange, err |-> "AvailableGpuCount must be greater than 0"]
    ELSE IF RLe(s.PowerConsumptionKW, RZero)
    THEN [val |-> ZeroRange, err |-> "PowerConsumptionKW must be greater than 0"]
    ELSE LET gpuLatencyPerTokenMean ==
                 RAdd(RMul(s.Gpu.LatencyAlpha, modelActiveParamCount), s.Gpu.LatencyBeta)
             gpuLatencyMin ==
                 RMul(outputTokenCount,
                      RSub(gpuLatencyPerTokenMean, RMul(Z95, s.Gpu.LatencyStdev)))
             gpuLatencyMax ==
                 RMul(outputTokenCount,
                      RAdd(gpuLatencyPerTokenMean, RMul(Z95, s.Gpu.LatencyStdev)))
             gpuLatencyInterval ==
                 RangeValue(RMax(RZero, gpuLatencyMin), gpuLatencyMax)
         IN  IF RLt(gpuLatencyInterval.Max, requestLatencySecs)
             THEN [val |-> gpuLatencyInterval, err |-> NoError]
             ELSE [val |-> RangeValue(requestLatencySecs, requestLatencySecs),
                   err |-> NoError]

\* What GenerationLatency writes to os.Stdout.  src/server/server.go prints
\* the two bounds of the estimate, before clipping, once the arguments have
\* passed validation (fmt.Println at lines 185-186); the copy of the method in
\* src/impact/gwp.go differs from it in the parameter names and in not having
\* these two statements.
GenerationLatencyOutput(s, modelActiveParamCount, outputTokenCount, requestLatencySecs) ==
    IF GenerationLatency(s, modelActiveParamCount, outputTokenCount,
                         requestLatencySecs).err # NoError
    THEN <<>>
    ELSE LET gpuLatencyPerTokenMean ==
                 RAdd(RMul(s.Gpu.LatencyAlpha, modelActiveParamCount), s.Gpu.LatencyBeta)
             gpuLatencyMin ==
                 RMul(outputTokenCount,
                      RSub(gpuLatencyPerTokenMean, RMul(Z95, s.Gpu.LatencyStdev)))
             gpuLatencyMax ==
                 RMul(outputTokenCount,
                      RAdd(gpuLatencyPerTokenMean, RMul(Z95, s.Gpu.LatencyStdev)))
         IN  << <<"gpuLatencyMin", gpuLatencyMin>>, <<"gpuLatencyMax", gpuLatencyMax>> >>

\* faulty variant: the PUE multiplies the server's share only
RequestEnergyPueOnServerOnly(s, serverEnergyKWH, gpuRequiredCount, gpuEnergyKWH) ==
    IF RLe(serverEnergyKWH, RZero)
    THEN [val |-> ZeroRange, err |-> "serverEnergyKWH must be greater than 0"]
    ELSE IF gpuRequiredCount <= 0 \/ gpuRequiredCount > s.AvailableGpuCount
    THEN [val |-> ZeroRange,
          err |-> "gpuRequiredCount must be between 1 and the number of available GPUs"]
    ELSE IF RLt(gpuEnergyKWH.Min, RZero) \/ RLt(gpuEnergyKWH.Max, RZero)
    THEN [val |-> ZeroRange, err |-> "gpuEnergyKWH values must be non-negative"]
    ELSE [val |-> RangeValue(
                      RAdd(RMul(s.DatacenterPue, serverEnergyKWH),
                           RMul(RInt(gpuRequiredCount), gpuEnergyKWH.Min)),
                      RAdd(RMul(s.DatacenterPue, serverEnergyKWH),
                           RMul(RInt(gpuRequiredCount), gpuEnergyKWH.Max))),
          err |-> NoError]

\* faulty variant: the count is not compared with the available accelerators
RequestEnergyNoCapacityCheck(s, serverEnergyKWH, gpuRequiredCount, gpuEnergyKWH) ==
    IF RLe(serverEnergyKWH, RZero)
    THEN [val |-> ZeroRange, err |-> "serverEnergyKWH must be greater than 0"]
    ELSE IF gpuRequiredCount <= 0
    THEN [val |-> ZeroRange,
          err |-> "gpuRequiredCount must be between 1 and the number of available GPUs"]
    ELSE IF RLt(gpuEnergyKWH.Min, RZero) \/ RLt(gpuEnergyKWH.Max, RZero)
    THEN [val |-> ZeroRange, err |-> "gpuEnergyKWH values must be non-negative"]
    ELSE [val |-> RangeValue(
                      RMul(s.DatacenterPue,
                           RAdd(serverEnergyKWH,
                                RMul(RInt(gpuRequiredCount), gpuEnergyKWH.Min))),
                      RMul(s.DatacenterPue,
                           RAdd(serverEnergyKWH,
                                RMul(RInt(gpuRequiredCount), gpuEnergyKWH.Max)))),
          err |-> NoError]

\* faulty variant: the server's energy is left out of the lower bound
RequestEnergyBaselineInMaxOnly(s, serverEnergyKWH, gpuRequiredCount, gpuEnergyKWH) ==
    IF RLe(serverEnergyKWH, RZero)
    THEN [val |-> ZeroRange, err |-> "serverEnergyKWH must be greater than 0"]
    ELSE IF gpuRequiredCount <= 0 \/ gpuRequiredCount > s.AvailableGpuCount
    THEN [val |-> ZeroRange,
          err |-> "gpuRequiredCount must be between 1 and the number of available GPUs"]
    ELSE IF RLt(gpuEnergyKWH.Min, RZero) \/ RLt(gpuEnergyKWH.Max, RZero)
    THEN [val |-> ZeroRange, err |-> "gpuEnergyKWH values must be non-negative"]
    ELSE [val |-> RangeValue(
                      RMul(s.DatacenterPue,
                           RMul(RInt(gpuRequiredCount), gpuEnergyKWH.Min)),
                      RMul(s.DatacenterPue,
                           RAdd(serverEnergyKWH,
                                RMul(RInt(gpuRequiredCount), gpuEnergyKWH.Max)))),
          err |-> NoError]

RequestEnergy(s, serverEnergyKWH, gpuRequiredCount, gpuEnergyKWH) ==
    IF RLe(serverEnergyKWH, RZero)
    THEN [val |-> ZeroRange, err |-> "serverEnergyKWH must be greater than 0"]
    ELSE IF gpuRequiredCount <= 0 \/ gpuRequiredCount > s.AvailableGpuCount
    THEN [val |-> ZeroRange,
          err |-> "gpuRequiredCount must be between 1 and the number of available GPUs"]
    ELSE IF RLt(gpuEnergyKWH.Min, RZero) \/ RLt(gpuEnergyKWH.Max, RZero)
    THEN [val |-> ZeroRange, err |-> "gpuEnergyKWH values must be non-negative"]
    ELSE [val |-> RangeValue(
                      RMul(s.DatacenterPue,
                           RAdd(serverEnergyKWH,
                                RMul(RInt(gpuRequiredCount), gpuEnergyKWH.Min))),
                      RMul(s.DatacenterPue,
                           RAdd(serverEnergyKWH,
                                RMul(RInt(gpuRequiredCount), gpuEnergyKWH.Max)))),
          err |-> NoError]

\* ---------------------------------------------------------------- AIModel

\* the value NewAIModel gives quantizationBits when the catalog gave none
DefaultQuantizationBits == 8

AIModel(total, active, bits) ==
    [Total |-> total, Active |-> active, quantizationBits |-> bits]

\* faulty variant: the memory is computed from the lower bound of Total
ModelRequiredMemoryOfMin(a) ==
    RDiv(RMul(RMul(Rat(6, 5), a.Total.Min), a.quantizationBits), RInt(8))

ModelRequiredMemory(a) ==
    RDiv(RMul(RMul(Rat(6, 5), a.Total.Max), a.quantizationBits), RInt(8))

\* ------------------------------------------------- the catalog's JSON values
\* A *fastjson.Value as the loader uses it: its type and, by type, its number
\* or its members.  JNil is the nil pointer that Get returns for a missing key.

JNil == [type |-> "nil"]

JNumber(v) == [type |-> "number", num |-> v]

JString(str) == [type |-> "string", str |-> str]

JTrue == [type |-> "true"]

JNull == [type |-> "null"]

JArray(items) == [type |-> "array", items |-> items]

\* members: a function from the keys that are present to their values
JObject(members) == [type |-> "object", members |-> members]

\* value.Get(key): nil on a nil value, on a value that is not an object, and
\* on a missing key
JsonGet(value, key) ==
    IF value.type = "object" /\ key \in DOMAIN value.members
    THEN value.members[key]
    ELSE JNil

\* value.Exists(key)
JsonExists(value, key) == JsonGet(value, key) # JNil

\* value.Float64(): the number, or an error for a value of another type
JsonFloat64(value) ==
    IF value.type = "number"
    THEN [val |-> value.num, err |-> NoError]
    ELSE [val |-> RZero, err |-> "value doesn't contain number"]

\* faulty variant: a bound that is missing stays at zero
parseRangeValueOneSided(value) ==
    IF value = JNil
    THEN [val |-> ZeroRange, err |-> NoError]
    ELSE IF value.type = "number"
    THEN [val |-> RangeValue(value.num, value.num), err |-> NoError]
    ELSE IF value.type # "object"
    THEN [val |-> ZeroRange, err |-> "unexpected type: " \o value.type]
    ELSE IF ~JsonExists(value, "min") /\ ~JsonExists(value, "max")
    THEN [val |-> ZeroRange, err |-> "min and max values are missing"]
    ELSE IF JsonExists(value, "min") /\ ~JsonExists(value, "max")
    THEN LET minVal == JsonFloat64(JsonGet(value, "min"))
         IN  IF minVal.err # NoError
             THEN [val |-> ZeroRange, err |-> "failed to parse min value"]
             ELSE [val |-> RangeValue(minVal.val, RZero), err |-> NoError]
    ELSE IF ~JsonExists(value, "min") /\ JsonExists(value, "max")
    THEN LET maxVal == JsonFloat64(JsonGet(value, "max"))
         IN  IF maxVal.err # NoError
             THEN [val |-> ZeroRange, err |-> "failed to parse max value"]
             ELSE [val |-> RangeValue(RZero, maxVal.val), err |-> NoError]
    ELSE LET minVal == JsonFloat64(JsonGet(value, "min"))
             maxVal == JsonFloat64(JsonGet(value, "max"))
         IN  IF minVal.err # NoError
             THEN [val |-> ZeroRange, err |-> "failed to parse min value"]
             ELSE IF maxVal.err # NoError
             THEN [val |-> ZeroRange, err |-> "failed to parse max value"]
             ELSE [val |-> RangeValue(minVal.val, maxVal.val), err |-> NoError]

\* faulty variant: a bound that is not a number counts as 0 (GetFloat64)
parseRangeValueLenient(value) ==
    IF value = JNil
    THEN [val |-> ZeroRange, err |-> NoError]
    ELSE IF value.type = "number"
    THEN [val |-> RangeValue(value.num, value.num), err |-> NoError]
    ELSE IF value.type # "object"
    THEN [val |-> ZeroRange, err |-> "unexpected type: " \o value.type]
    ELSE IF ~JsonExists(value, "min") /\ ~JsonExists(value, "max")
    THEN [val |-> ZeroRange, err |-> "min and max values are missing"]
    ELSE IF JsonExists(value, "min") /\ ~JsonExists(value, "max")
    THEN LET minVal == JsonFloat64(JsonGet(value, "min"))
         IN  [val |-> RangeValue(minVal.val, minVal.val), err |-> NoError]
    ELSE IF ~JsonExists(value, "min") /\ JsonExists(value, "max")
    THEN LET maxVal == JsonFloat64(JsonGet(value, "max"))
         IN  [val |-> RangeValue(maxVal.val, maxVal.val), err |-> NoError]
    ELSE LET minVal == JsonFloat64(JsonGet(value, "min"))
             maxVal == JsonFloat64(JsonGet(value, "max"))
         IN  [val |-> RangeValue(minVal.val, maxVal.val), err |-> NoError]

\* parseRangeValue returns (common.RangeValue, error)
parseRangeValue(value) ==
    IF value = JNil
    THEN [val |-> ZeroRange, err |-> NoError]
    ELSE IF value.type = "number"
    THEN [val |-> RangeValue(value.num, value.num), err |-> NoError]
    ELSE IF value.type # "object"
    THEN [val |-> ZeroRange, err |-> "unexpected type: " \o value.type]
    ELSE IF ~JsonExists(value, "min") /\ ~JsonExists(value, "max")
    THEN [val |-> ZeroRange, err |-> "min and max values are missing"]
    ELSE IF JsonExists(value, "min") /\ ~JsonExists(value, "max")
    THEN LET minVal == JsonFloat64(JsonGet(value, "min"))
         IN  IF minVal.err # NoError
             THEN [val |-> ZeroRange, err |-> "failed to parse min value"]
             ELSE [val |-> RangeValue(minVal.val, minVal.val), err |-> NoError]
    ELSE IF ~JsonExists(value, "min") /\ JsonExists(value, "max")
    THEN LET maxVal == JsonFloat64(JsonGet(value, "max"))
         IN  IF maxVal.err # NoError
             THEN [val |-> ZeroRange, err |-> "failed to parse max value"]
             ELSE [val |-> RangeValue(maxVal.val, maxVal.val), err |-> NoError]
    ELSE LET minVal == JsonFloat64(JsonGet(value, "min"))
             maxVal == JsonFloat64(JsonGet(value, "max"))
         IN  IF minVal.err # NoError
             THEN [val |-> ZeroRange, err |-> "failed to parse min value"]
             ELSE IF maxVal.err # NoError
             THEN [val |-> ZeroRange, err |-> "failed to parse max value"]
             ELSE [val |-> RangeValue(minVal.val, maxVal.val), err |-> NoError]

\* ------------------------------------------------------ the catalog loader

\* make(map[string]AIModel)
NoModelsMap == <<>>

\* the AIModel that FetchAIModels builds for a descriptor: quantizationBits is
\* not read from the catalog and keeps Go's zero value
CatalogAIModel(name, parameters) ==
    [name |-> name, Total |-> parameters.Total, Active |-> parameters.Active,
     quantizationBits |-> RZero]

\* Parameters{}
ZeroParameters == [Total |-> ZeroRange, Active |-> ZeroRange]

\* AIModel{}: what a map lookup yields for a key that is not in the map
ZeroAIModel == CatalogAIModel("", ZeroParameters)

\* the nil *AIModel that NewAIModel returns next to an error
NilAIModel == [nil |-> TRUE]

\* string(value.GetStringBytes(key)): empty unless the member is a string
JsonGetString(value, key) ==
    IF JsonGet(value, key).type = "string" THEN JsonGet(value, key).str ELSE ""

\* lines 246-271: total, then active, then the bare min/max of the legacy form
ParseParameters(parameters) ==
    LET skipped == [val |-> ZeroRange, err |-> NoError]
        totalVal == IF JsonExists(parameters, "total")
                    THEN parseRangeValue(JsonGet(parameters, "total"))
                    ELSE skipped
        activeVal == IF JsonExists(parameters, "active")
                     THEN parseRangeValue(JsonGet(parameters, "active"))
                     ELSE skipped
        legacy == JsonExists(parameters, "min") \/ JsonExists(parameters, "max")
        legacyVal == IF legacy THEN parseRangeValue(parameters) ELSE skipped
    IN  IF totalVal.err # NoError
        THEN [val |-> ZeroParameters,
              err |-> "failed to parse min value for total: " \o totalVal.err]
        ELSE IF activeVal.err # NoError
        THEN [val |-> ZeroParameters,
              err |-> "failed to parse max value for active: " \o activeVal.err]
        ELSE IF legacyVal.err # NoError
        THEN [val |-> ZeroParameters,
              err |-> "failed to parse max value for active: " \o legacyVal.err]
        ELSE [val |-> [Total  |-> IF legacy THEN legacyVal.val ELSE totalVal.val,
                       Active |-> activeVal.val],
              err |-> NoError]

\* lines 234-272: one element of the "models" array
FetchAIModel(model) ==
    LET architecture == JsonGet(model, "architecture")
        parsedParams == IF architecture # JNil
                        THEN ParseParameters(JsonGet(architecture, "parameters"))
                        ELSE [val |-> ZeroParameters, err |-> NoError]
    IN  [val |-> CatalogAIModel(JsonGetString(model, "name"), parsedParams.val),
         err |-> parsedParams.err]

\* faulty variant: a descriptor that does not parse is left out of the list
RECURSIVE FetchAIModelsFromSkipInvalid(_, _, _)
FetchAIModelsFromSkipInvalid(modelsArray, i, models) ==
    IF i > Len(modelsArray)
    THEN [val |-> models, err |-> NoError]
    ELSE LET aiModel == FetchAIModel(modelsArray[i])
         IN  IF aiModel.err # NoError
             THEN FetchAIModelsFromSkipInvalid(modelsArray, i + 1, models)
             ELSE FetchAIModelsFromSkipInvalid(modelsArray, i + 1,
                                               Append(models, aiModel.val))

\* the loop of lines 233-274 from element i on; models holds the elements
\* appended so far
RECURSIVE FetchAIModelsFrom(_, _, _)
FetchAIModelsFrom(modelsArray, i, models) ==
    IF i > Len(modelsArray)
    THEN [val |-> models, err |-> NoError]
    ELSE LET aiModel == FetchAIModel(modelsArray[i])
         IN  IF aiModel.err # NoError
             THEN [val |-> <<>>, err |-> aiModel.err]
             ELSE FetchAIModelsFrom(modelsArray, i + 1, Append(models, aiModel.val))

\* FetchAIModels returns (*ModelData, error); the file is given by its
\* "models" array
FetchAIModels(modelsArray) == FetchAIModelsFrom(modelsArray, 1, <<>>)

\* faulty variant: a name that is already in the map keeps its first model
RECURSIVE CreateModelsMapFirstWins(_)
CreateModelsMapFirstWins(models) ==
    IF models = <<>>
    THEN NoModelsMap
    ELSE LET last == models[Len(models)]
         IN  CreateModelsMapFirstWins(SubSeq(models, 1, Len(models) - 1))
                 @@ (last.name :> last)

\* models.Aliases as FetchAIModels fills it from the "aliases" array of the
\* file (lines 221-230): the data file gives other names to some models
CatalogAliases ==
    { [Provider |-> "openai", Name |-> "a", Alias |-> "c"] }

\* faulty variant: the aliases of a model are keys of the map as well
CreateModelsMapResolvingAliases(models) ==
    LET last(name) == CHOOSE i \in 1..Len(models) :
                          /\ models[i].name = name
                          /\ \A j \in 1..Len(models) : models[j].name = name => j <= i
        byName == [name \in {models[i].name : i \in 1..Len(models)} |->
                      models[last(name)]]
        resolved == {alias \in CatalogAliases : alias.Name \in DOMAIN byName}
    IN  [key \in DOMAIN byName \cup {alias.Alias : alias \in resolved} |->
            IF key \in DOMAIN byName
            THEN byName[key]
            ELSE byName[(CHOOSE alias \in resolved : alias.Alias = key).Name]]

\* modelsMap[model.name] = model, for each model in list order
RECURSIVE CreateModelsMap(_)
CreateModelsMap(models) ==
    IF models = <<>>
    THEN NoModelsMap
    ELSE LET last == models[Len(models)]
         IN  (last.name :> last)
                 @@ CreateModelsMap(SubSeq(models, 1, Len(models) - 1))

\* faulty variant: the model is handed out as the map holds it
HandOutAsStored(map, name) ==
    IF name \in DOMAIN map THEN map[name] ELSE ZeroAIModel

\* lines 175-179: the copy of the map's entry that NewAIModel hands out
HandOut(map, name) ==
    LET model == IF name \in DOMAIN map THEN map[name] ELSE ZeroAIModel
    IN  IF model.quantizationBits = RZero
        THEN [model EXCEPT !.quantizationBits = RInt(DefaultQuantizationBits)]
        ELSE model

\* NewAIModel(name, provider) returns (*AIModel, error); map is its local
\* modelsMap
NewAIModelResult(modelsArray, name, provider) ==
    IF name = ""
    THEN [model |-> NilAIModel, err |-> "name cannot be empty", map |-> NoModelsMap]
    ELSE IF provider = ""
    THEN [model |-> NilAIModel, err |-> "provider cannot be empty", map |-> NoModelsMap]
    ELSE LET models == FetchAIModels(modelsArray)
         IN  IF models.err # NoError
             THEN [model |-> NilAIModel, err |-> models.err, map |-> NoModelsMap]
             ELSE [model |-> HandOut(CreateModelsMap(models.val), name),
                   err   |-> NoError,
                   map   |-> CreateModelsMap(models.val)]

\* ---------------------------------------------------------------- Request

\* The geography is not read: every request gets the same factors.
\* faulty variant: the factors are looked up by the geography
GetElectricityMixByGeo(r) ==
    IF r.Geo = "USA"
    THEN [ADPe |-> RInt(985548), GWP |-> RInt(67978), PE |-> RInt(11358)]
    ELSE [ADPe |-> RInt(485548), GWP |-> RInt(8132), PE |-> RInt(11289)]

GetElectricityMix(r) ==
    [ADPe |-> RInt(985548), GWP |-> RInt(67978), PE |-> RInt(11358)]

\* ----------------------------------------------------------------- impact

Metrics == {"ADPe", "GWP", "PE"}

requestUsage(requestEnergy, electricityMix) ==
    RangeValue(RMul(requestEnergy.Min, electricityMix),
               RMul(requestEnergy.Max, electricityMix))

\* faulty variant: the share is the part of the lifespan the request leaves
requestEmbodiedOfRemainingLife(serverGPUEmbodiedImpact, hardwareLifespan, generationLatency) ==
    RangeValue(RMul(RDiv(RSub(hardwareLifespan, generationLatency.Min), hardwareLifespan),
                    serverGPUEmbodiedImpact),
               RMul(RDiv(RSub(hardwareLifespan, generationLatency.Max), hardwareLifespan),
                    serverGPUEmbodiedImpact))

requestEmbodied(serverGPUEmbodiedImpact, hardwareLifespan, generationLatency) ==
    RangeValue(RMul(RDiv(generationLatency.Min, hardwareLifespan),
                    serverGPUEmbodiedImpact),
               RMul(RDiv(generationLatency.Max, hardwareLifespan),
                    serverGPUEmbodiedImpact))

serverGPUEmbodied(serverEmbodiedImpact, gpuCount, gpuEmbodiedImpact, gpuRequiredCount) ==
    RAdd(RMul(RDiv(RInt(gpuRequiredCount), gpuCount), serverEmbodiedImpact),
         RMul(RInt(gpuRequiredCount), gpuEmbodiedImpact))

totalImpact(requestImpact, embodiedImpact) ==
    RangeValue(RAdd(requestImpact.Min, embodiedImpact.Min),
               RAdd(requestImpact.Max, embodiedImpact.Max))

\* faulty variant: every metric reads the ADPe constants of the hardware
MetricImpactAdpeConstants(metric, s, electricityMix, requestEnergy, gpuRequiredCount, generationLatency) ==
    LET usage == requestUsage(requestEnergy, electricityMix[metric])
        shared == serverGPUEmbodied(s.EmbodiedImpact["ADPe"],
                                    RInt(s.AvailableGpuCount),
                                    s.Gpu.EmbodiedImpact["ADPe"],
                                    gpuRequiredCount)
        embodied == requestEmbodied(shared, RInt(s.HardwareLifespan), generationLatency)
    IN  [EmbodiedImpact          |-> embodied,
         RequestImpact           |-> usage,
         ServerGPUEmbodiedImpact |-> shared,
         TotalImpact             |-> totalImpact(usage, embodied)]

\* The ADPe, GWP and PE structs: the four Calculate* calls of one metric, in
\* the order ComputeImpacts makes them.
MetricImpact(metric, s, electricityMix, requestEnergy, gpuRequiredCount, generationLatency) ==
    LET usage == requestUsage(requestEnergy, electricityMix[metric])
        shared == serverGPUEmbodied(s.EmbodiedImpact[metric],
                                    RInt(s.AvailableGpuCount),
                                    s.Gpu.EmbodiedImpact[metric],
                                    gpuRequiredCount)
        embodied == requestEmbodied(shared, RInt(s.HardwareLifespan), generationLatency)
    IN  [EmbodiedImpact          |-> embodied,
         RequestImpact           |-> usage,
         ServerGPUEmbodiedImpact |-> shared,
         TotalImpact             |-> totalImpact(usage, embodied)]

ZeroMetric ==
    [EmbodiedImpact          |-> ZeroRange,
     RequestImpact           |-> ZeroRange,
     ServerGPUEmbodiedImpact |-> RZero,
     TotalImpact             |-> ZeroRange]

\* Go's Impacts{}
ZeroImpacts ==
    [Energy |-> ZeroRange, ADPe |-> ZeroMetric, GWP |-> ZeroMetric, PE |-> ZeroMetric]

\* ------------------------------------------------------------------ state

VARIABLES
    aiModel,    \* the *aimodel.AIModel handed to ComputeImpacts
    server,     \* the server profile (ServerInfra / GPUServer)
    req,        \* the request.Request of the running ComputeImpacts call
    pc,         \* position of the running ComputeImpacts call
    locals,     \* local variables of the running ComputeImpacts call
    ret,        \* what ComputeImpacts returned: (Impacts, error)
    evaluated,  \* history: the stages the running call has evaluated, in order
    call,       \* the last direct call of a ServerInfra method and its result
    stdout,     \* history: the lines the running call has written to os.Stdout
    catalog,    \* the "models" array of the catalog file NewAIModel reads
    modelsMap,  \* history: the map the last NewAIModel built from the catalog
    loadErr,    \* the error the last NewAIModel returned
    calls       \* the frames of the ComputeImpacts calls that run concurrently

vars == <<aiModel, server, req, pc, locals, ret, evaluated, call,
          stdout, catalog, modelsMap, loadErr, calls>>

\* the loader's variables and the concurrent frames: no sequential
\* ComputeImpacts call and no direct method call touches them
loaderVars == <<catalog, modelsMap, loadErr>>

\* ----------------------------------------------------------------- bounds

MaxGpuCount == 2
MaxTotalParams == 2
MaxActiveParams == 1
MaxTokens == 2
MaxLatency == 4

\* ------------------------------------------------------------- the inputs

Gpu(energy, latency, mem, embodied) ==
    [EnergyAlpha    |-> energy[1],
     EnergyBeta     |-> energy[2],
     EnergyStdev    |-> energy[3],
     LatencyAlpha   |-> latency[1],
     LatencyBeta    |-> latency[2],
     LatencyStdev   |-> latency[3],
     AvailMemoryGB  |-> mem,
     EmbodiedImpact |-> embodied]

ServerInfra(count, power, embodied, lifespan, gpu, pue) ==
    [AvailableGpuCount  |-> count,
     PowerConsumptionKW |-> power,
     EmbodiedImpact     |-> embodied,
     HardwareLifespan   |-> lifespan,
     Gpu                |-> gpu,
     DatacenterPue      |-> pue]

Embodied(adpe, gwp, pe) == [ADPe |-> RInt(adpe), GWP |-> RInt(gwp), PE |-> RInt(pe)]

\* Regression parameters <<alpha, beta, stdev>>.  A stdev of k*25/49 makes the
\* half-width 1.96*stdev of the confidence interval the integer k.
GoodParams == {<<RInt(1), RInt(1), Rat(25, 49)>>, <<RInt(1), RInt(1), Rat(75, 49)>>}
BadParams  == {<<RInt(0), RInt(1), Rat(25, 49)>>}

\* <<DatacenterPue, HardwareLifespan, server embodied, GPU embodied>>.
\* HardwareLifespan = 0 (a float64 division by zero) is not modelled.
Economics ==
    { <<RInt(2),  2,  Embodied(1, 2, 3),  Embodied(1, 1, 2)>>,
      <<RInt(-1), 2,  Embodied(1, 2, 3),  Embodied(1, 1, 2)>>,
      <<RInt(2),  -1, Embodied(1, 2, 3),  Embodied(1, 1, 2)>>,
      <<RInt(2),  2,  Embodied(-1, 0, 3), Embodied(0, 1, -2)>> }

\* profiles every stage accepts, with every choice of the economics
ValidServers ==
    { ServerInfra(count, RInt(3600), e[3], e[2],
                  Gpu(energy, <<RInt(1), RInt(1), Rat(25, 49)>>, RInt(2), e[4]), e[1]) :
        count \in 1..MaxGpuCount,
        energy \in GoodParams,
        e \in Economics }

\* profiles that violate the preconditions of any combination of stages
InvalidServers ==
    { ServerInfra(count, power, Embodied(1, 2, 3), 2,
                  Gpu(energy, latency, mem, Embodied(1, 1, 2)), RInt(2)) :
        count \in 0..MaxGpuCount,
        power \in {RInt(0), RInt(3600)},
        energy \in GoodParams \cup BadParams,
        latency \in {<<RInt(1), RInt(1), Rat(25, 49)>>} \cup BadParams,
        mem \in {RInt(0), RInt(2)} }

Servers == ValidServers \cup InvalidServers

Models ==
    { AIModel(RangeValue(RInt(t), RInt(t)), RangeValue(RInt(a), RInt(a)),
              RInt(DefaultQuantizationBits)) :
        t \in 0..MaxTotalParams, a \in 0..MaxActiveParams }

\* NewRequest(outputTokenCount int64, latency float64, geo string)
Requests ==
    { [OutputTokenCount |-> RInt(n), Latency |-> RInt(l), Geo |-> g] :
        n \in 0..MaxTokens, l \in 0..MaxLatency, g \in {"USA", "FRA"} }

NoRequest == [OutputTokenCount |-> RZero, Latency |-> RZero, Geo |-> ""]

NoLocals ==
    [modelRequiredMemory |-> RZero,
     electricityMix      |-> [ADPe |-> RZero, GWP |-> RZero, PE |-> RZero],
     gpuRequiredCount    |-> 0,
     generationLatency   |-> ZeroRange,
     gpuEnergyKWH        |-> ZeroRange,
     serverEnergyKWH     |-> RZero,
     requestEnergy       |-> ZeroRange]

NoReturn == [impacts |-> ZeroImpacts, err |-> NoError, cause |-> NoError]

NoCall == [fn |-> "none", args |-> <<>>, out |-> [val |-> 0, err |-> NoError]]

\* --------------------------------------------------------- ComputeImpacts

StageOrder ==
    <<"GpuRequiredCount", "GenerationLatency", "GpuEnergyKWH",
      "ServerEnergyBaseline", "RequestEnergy", "Impacts">>

\* the stage ComputeImpacts evaluates after `stage`
NextStageEnergyFirst(stage) ==
    CASE stage = "GpuRequiredCount"     -> "GpuEnergyKWH"
      [] stage = "GpuEnergyKWH"         -> "GenerationLatency"
      [] stage = "GenerationLatency"    -> "ServerEnergyBaseline"
      [] stage = "ServerEnergyBaseline" -> "RequestEnergy"
      [] stage = "RequestEnergy"        -> "Impacts"
      [] stage = "Impacts"              -> "done"

NextStage(stage) ==
    CASE stage = "GpuRequiredCount"     -> "GenerationLatency"
      [] stage = "GenerationLatency"    -> "GpuEnergyKWH"
      [] stage = "GpuEnergyKWH"         -> "ServerEnergyBaseline"
      [] stage = "ServerEnergyBaseline" -> "RequestEnergy"
      [] stage = "RequestEnergy"        -> "Impacts"
      [] stage = "Impacts"              -> "done"

\* the message ComputeImpacts wraps a stage's error in
StageError(stage) ==
    CASE stage = "GpuRequiredCount"     -> "failed to get GPU required count"
      [] stage = "GenerationLatency"    -> "failed to get generation latency"
      [] stage = "GpuEnergyKWH"         -> "failed to get GPU energy"
      [] stage = "ServerEnergyBaseline" -> "failed to get server energy"
      [] stage = "RequestEnergy"        -> "failed to get request energy"

\* return Impacts{}, fmt.Errorf("failed to get ...: %w", err)
FailureReturnPartial(stage, cause, l) ==
    [impacts |-> [ZeroImpacts EXCEPT !.Energy = l.gpuEnergyKWH],
     err     |-> StageError(stage),
     cause   |-> cause]

FailureReturn(stage, cause, l) ==
    [impacts |-> ZeroImpacts, err |-> StageError(stage), cause |-> cause]

Fail(stage, cause) ==
    /\ pc' = "failed"
    /\ ret' = FailureReturn(stage, cause, locals)
    /\ UNCHANGED locals

\* lines 84-85: the model's memory and the request's electricity mix
Start(r) ==
    /\ pc = "idle"
    /\ req' = r
    /\ locals' = [NoLocals EXCEPT
                    !.modelRequiredMemory = ModelRequiredMemory(aiModel),
                    !.electricityMix = GetElectricityMix(r)]
    /\ pc' = StageOrder[1]
    /\ ret' = NoReturn
    /\ evaluated' = <<>>
    /\ stdout' = <<>>
    /\ UNCHANGED <<aiModel, server, call, loaderVars, calls>>

StageGpuRequiredCount ==
    /\ pc = "GpuRequiredCount"
    /\ LET r == GpuRequiredCount(server, locals.modelRequiredMemory)
       IN  IF r.err # NoError
           THEN Fail("GpuRequiredCount", r.err)
           ELSE /\ locals' = [locals EXCEPT !.gpuRequiredCount = r.val]
                /\ pc' = NextStage("GpuRequiredCount")
                /\ UNCHANGED ret
    /\ evaluated' = Append(evaluated, "GpuRequiredCount")
    /\ UNCHANGED <<aiModel, server, req, call, stdout, loaderVars, calls>>

StageGenerationLatency ==
    /\ pc = "GenerationLatency"
    /\ LET r == GenerationLatency(server, aiModel.Active.Max,
                                  req.OutputTokenCount, req.Latency)
       IN  IF r.err # NoError
           THEN Fail("GenerationLatency", r.err)
           ELSE /\ locals' = [locals EXCEPT !.generationLatency = r.val]
                /\ pc' = NextStage("GenerationLatency")
                /\ UNCHANGED ret
    /\ evaluated' = Append(evaluated, "GenerationLatency")
    /\ stdout' = stdout \o GenerationLatencyOutput(server, aiModel.Active.Max,
                                                   req.OutputTokenCount, req.Latency)
    /\ UNCHANGED <<aiModel, server, req, call, loaderVars, calls>>

StageGpuEnergy ==
    /\ pc = "GpuEnergyKWH"
    /\ LET r == GpuEnergyKWH(server, aiModel.Active.Max, req.OutputTokenCount)
       IN  IF r.err # NoError
           THEN Fail("GpuEnergyKWH", r.err)
           ELSE /\ locals' = [locals EXCEPT !.gpuEnergyKWH = r.val]
                /\ pc' = NextStage("GpuEnergyKWH")
                /\ UNCHANGED ret
    /\ evaluated' = Append(evaluated, "GpuEnergyKWH")
    /\ UNCHANGED <<aiModel, server, req, call, stdout, loaderVars, calls>>

StageServerEnergy ==
    /\ pc = "ServerEnergyBaseline"
    /\ LET r == ServerEnergyBaseline(server, locals.generationLatency.Max,
                                     locals.gpuRequiredCount)
       IN  IF r.err # NoError
           THEN Fail("ServerEnergyBaseline", r.err)
           ELSE /\ locals' = [locals EXCEPT !.serverEnergyKWH = r.val]
                /\ pc' = NextStage("ServerEnergyBaseline")
                /\ UNCHANGED ret
    /\ evaluated' = Append(evaluated, "ServerEnergyBaseline")
    /\ UNCHANGED <<aiModel, server, req, call, stdout, loaderVars, calls>>

StageRequestEnergy ==
    /\ pc = "RequestEnergy"
    /\ LET r == RequestEnergy(server, locals.serverEnergyKWH,
                              locals.gpuRequiredCount, locals.gpuEnergyKWH)
       IN  IF r.err # NoError
           THEN Fail("RequestEnergy", r.err)
           ELSE /\ locals' = [locals EXCEPT !.requestEnergy = r.val]
                /\ pc' = NextStage("RequestEnergy")
                /\ UNCHANGED ret
    /\ evaluated' = Append(evaluated, "RequestEnergy")
    /\ UNCHANGED <<aiModel, server, req, call, stdout, loaderVars, calls>>

\* lines 113-136: the three metrics and the returned Impacts
ComputedImpacts(s, l) ==
    [Energy |-> l.requestEnergy,
     ADPe   |-> MetricImpact("ADPe", s, l.electricityMix, l.requestEnergy,
                             l.gpuRequiredCount, l.generationLatency),
     GWP    |-> MetricImpact("GWP", s, l.electricityMix, l.requestEnergy,
                             l.gpuRequiredCount, l.generationLatency),
     PE     |-> MetricImpact("PE", s, l.electricityMix, l.requestEnergy,
                             l.gpuRequiredCount, l.generationLatency)]

StageImpacts ==
    /\ pc = "Impacts"
    /\ ret' = [impacts |-> ComputedImpacts(server, locals),
               err |-> NoError, cause |-> NoError]
    /\ pc' = NextStage("Impacts")
    /\ evaluated' = Append(evaluated, "Impacts")
    /\ UNCHANGED <<aiModel, server, req, locals, call, stdout, loaderVars, calls>>

\* the caller takes the result; the call's frame is gone
Return ==
    /\ pc \in {"done", "failed"}
    /\ pc' = "idle"
    /\ req' = NoRequest
    /\ locals' = NoLocals
    /\ ret' = NoReturn
    /\ evaluated' = <<>>
    /\ stdout' = <<>>
    /\ UNCHANGED <<aiModel, server, call, loaderVars, calls>>

Init ==
    /\ aiModel \in Models
    /\ server \in Servers
    /\ req = NoRequest
    /\ pc = "idle"
    /\ locals = NoLocals
    /\ ret = NoReturn
    /\ evaluated = <<>>
    /\ call = NoCall
    /\ stdout = <<>>
    /\ catalog = <<>>
    /\ modelsMap = NoModelsMap
    /\ loadErr = NoError
    /\ calls = <<>>

Next ==
    \/ \E r \in Requests : Start(r)
    \/ StageGpuRequiredCount
    \/ StageGenerationLatency
    \/ StageGpuEnergy
    \/ StageServerEnergy
    \/ StageRequestEnergy
    \/ StageImpacts
    \/ Return

Spec == Init /\ [][Next]_vars

\* ------------------------------------------- direct calls of the methods
\* A caller (as the package's tests do) builds a ServerInfra and calls one of
\* its exported methods with arguments of its choice.

BaseGpu ==
    Gpu(<<RInt(1), RInt(1), Rat(25, 49)>>, <<RInt(1), RInt(1), Rat(25, 49)>>,
        RInt(2), Embodied(1, 1, 2))

BaseServer ==
    ServerInfra(MaxGpuCount, RInt(1), Embodied(1, 2, 3), 2, BaseGpu, Rat(6, 5))

CallServers ==
    \* the fields GenerationLatency and ServerEnergyBaseline read
    { [BaseServer EXCEPT !.AvailableGpuCount = count,
                         !.PowerConsumptionKW = power,
                         !.Gpu.LatencyAlpha = la,
                         !.Gpu.LatencyBeta = lb,
                         !.Gpu.LatencyStdev = ls] :
        count \in -1..MaxGpuCount,
        power \in {RInt(-1), RInt(0), Rat(3, 2)},
        la \in {RInt(0), RInt(1)},
        lb \in {RInt(0), RInt(1)},
        ls \in {RInt(0), Rat(25, 49), RInt(1), RInt(2)} }
    \cup
    \* the fields GpuEnergyKWH reads
    { [BaseServer EXCEPT !.Gpu.EnergyAlpha = ea,
                         !.Gpu.EnergyBeta = eb,
                         !.Gpu.EnergyStdev = es] :
        ea \in {RInt(0), RInt(1)},
        eb \in {RInt(-1), RInt(1)},
        es \in {RInt(0), Rat(25, 49), RInt(1), RInt(2)} }
    \cup
    \* the field GpuRequiredCount reads
    { [BaseServer EXCEPT !.Gpu.AvailMemoryGB = mem] :
        mem \in {RInt(-1), RInt(0), RInt(1), RInt(2), RInt(30), RInt(80)} }
    \cup
    \* the fields RequestEnergy reads
    { [BaseServer EXCEPT !.AvailableGpuCount = count, !.DatacenterPue = pue] :
        count \in -1..MaxGpuCount,
        pue \in {RInt(-1), RInt(0), RInt(1), Rat(6, 5)} }

CallMemories == {RInt(-1), RInt(0), RInt(1), Rat(5, 2), RInt(4), RInt(80)}
CallParams == {RInt(-1), RInt(0), RInt(1), RInt(2)}
CallTokens == {RInt(n) : n \in -1..MaxTokens}
CallLatencies == {RInt(l) : l \in -1..MaxLatency} \cup {Rat(99, 25), Rat(7, 2), RInt(6)}
CallCounts == -1..(MaxGpuCount + 1)
CallEnergies == {RInt(-1), RInt(0), Rat(1, 2), RInt(1)}
CallRanges ==
    { RangeValue(lo, hi) : lo \in {RInt(-1), RInt(0), RInt(1)},
                           hi \in {RInt(-1), RInt(0), RInt(2)} }

\* a bound of a range object: missing, a number, or a value of another type
CallBounds == {JNil, JNumber(Rat(21, 2)), JNumber(Rat(41, 2)), JString("x"), JNull}

\* the object with the given bounds; a JNil bound is a missing key
RangeObject(lo, hi) ==
    LET bound(k) == IF k = "min" THEN lo ELSE hi
    IN  JObject([k \in {key \in {"min", "max"} : bound(key) # JNil} |-> bound(k)])

CallJsonValues ==
    {JNil, JNumber(RInt(15)), JNumber(RZero), JNumber(RInt(-1)),
     JString("invalid"), JTrue, JNull, JArray(<<JNumber(RInt(1))>>),
     JObject([k \in {"total"} |-> JNumber(RInt(1))])}
    \cup { RangeObject(lo, hi) : lo \in CallBounds, hi \in CallBounds }

pipelineVars == <<aiModel, server, req, pc, locals, ret, evaluated>>

CallGpuRequiredCount(mem) ==
    /\ call = NoCall
    /\ call' = [fn |-> "GpuRequiredCount", args |-> <<mem>>,
                out |-> GpuRequiredCount(server, mem)]
    /\ UNCHANGED <<pipelineVars, stdout, loaderVars, calls>>

CallServerEnergyBaseline(lat, n) ==
    /\ call = NoCall
    /\ call' = [fn |-> "ServerEnergyBaseline", args |-> <<lat, n>>,
                out |-> ServerEnergyBaseline(server, lat, n)]
    /\ UNCHANGED <<pipelineVars, stdout, loaderVars, calls>>

CallGpuEnergyKWH(p, n) ==
    /\ call = NoCall
    /\ call' = [fn |-> "GpuEnergyKWH", args |-> <<p, n>>,
                out |-> GpuEnergyKWH(server, p, n)]
    /\ UNCHANGED <<pipelineVars, stdout, loaderVars, calls>>

CallGenerationLatency(p, n, l) ==
    /\ call = NoCall
    /\ call' = [fn |-> "GenerationLatency", args |-> <<p, n, l>>,
                out |-> GenerationLatency(server, p, n, l)]
    /\ stdout' = stdout \o GenerationLatencyOutput(server, p, n, l)
    /\ UNCHANGED <<pipelineVars, loaderVars, calls>>

CallRequestEnergy(se, n, e) ==
    /\ call = NoCall
    /\ call' = [fn |-> "RequestEnergy", args |-> <<se, n, e>>,
                out |-> RequestEnergy(server, se, n, e)]
    /\ UNCHANGED <<pipelineVars, stdout, loaderVars, calls>>

CallParseRangeValue(value) ==
    /\ call = NoCall
    /\ call' = [fn |-> "parseRangeValue", args |-> <<value>>,
                out |-> parseRangeValue(value)]
    /\ UNCHANGED <<pipelineVars, stdout, loaderVars, calls>>

\* the caller is done with the result and may call again
CallReturn ==
    /\ call # NoCall
    /\ call' = NoCall
    /\ stdout' = <<>>
    /\ UNCHANGED <<pipelineVars, loaderVars, calls>>

InitCalls ==
    /\ aiModel = AIModel(RangeValue(RInt(1), RInt(1)), RangeValue(RInt(1), RInt(1)),
                         RInt(DefaultQuantizationBits))
    /\ server \in CallServers
    /\ req = NoRequest
    /\ pc = "idle"
    /\ locals = NoLocals
    /\ ret = NoReturn
    /\ evaluated = <<>>
    /\ call = NoCall
    /\ stdout = <<>>
    /\ catalog = <<>>
    /\ modelsMap = NoModelsMap
    /\ loadErr = NoError
    /\ calls = <<>>

NextCalls ==
    \/ \E mem \in CallMemories : CallGpuRequiredCount(mem)
    \/ \E lat \in CallLatencies, n \in CallCounts : CallServerEnergyBaseline(lat, n)
    \/ \E p \in CallParams, n \in CallTokens : CallGpuEnergyKWH(p, n)
    \/ \E p \in CallParams, n \in CallTokens, l \in CallLatencies :
           CallGenerationLatency(p, n, l)
    \/ \E se \in CallEnergies, n \in CallCounts, e \in CallRanges :
           CallRequestEnergy(se, n, e)
    \/ \E value \in CallJsonValues : CallParseRangeValue(value)
    \/ CallReturn

SpecCalls == InitCalls /\ [][NextCalls]_vars

\* ------------------------------------------- loading a model and using it
\* A caller (as examples/openai does) loads a model by name from the catalog
\* file and runs ComputeImpacts on it.

MaxCatalogLen == 2

\* the "parameters" member with the given keys; a JNil value is a missing key
ParametersObject(total, active, lo, hi) ==
    LET member(k) == CASE k = "total"  -> total
                       [] k = "active" -> active
                       [] k = "min"    -> lo
                       [] k = "max"    -> hi
    IN  JObject([k \in {key \in {"total", "active", "min", "max"} :
                            member(key) # JNil} |-> member(k)])

CatalogParameters ==
    { \* total and active in every accepted encoding
      ParametersObject(JNumber(RInt(1)), JNumber(RInt(1)), JNil, JNil),
      ParametersObject(RangeObject(JNumber(RInt(1)), JNumber(RInt(2))),
                       RangeObject(JNil, JNumber(RInt(1))), JNil, JNil),
      \* a field that is absent
      ParametersObject(JNil, JNumber(RInt(1)), JNil, JNil),
      ParametersObject(JNumber(RInt(1)), JNil, JNil, JNil),
      \* a field that does not parse
      ParametersObject(JString("x"), JNumber(RInt(1)), JNil, JNil),
      ParametersObject(JNumber(RInt(1)), RangeObject(JNil, JNil), JNil, JNil),
      \* the legacy form: the bounds are members of "parameters" itself
      ParametersObject(JNil, JNil, JNumber(RInt(1)), JNumber(RInt(2))),
      ParametersObject(JNil, JNumber(RInt(1)), JNumber(RInt(1)), JNil),
      ParametersObject(JNumber(RInt(2)), JNumber(RInt(1)), JNil, JString("x")),
      JNumber(RInt(1)),
      \* two intervals that are not degenerate
      ParametersObject(RangeObject(JNumber(RInt(1)), JNumber(RInt(2))),
                       RangeObject(JNumber(Rat(1, 2)), JNumber(RInt(1))), JNil, JNil),
      \* no "parameters" member
      JNil }

\* an element of the "models" array
Descriptor(name, parameters) ==
    JObject([k \in {"name", "provider", "architecture"} |->
                CASE k = "name"         -> JString(name)
                  [] k = "provider"     -> JString("openai")
                  [] k = "architecture" ->
                         IF parameters = JNil
                         THEN JObject([t \in {"type"} |-> JString("dense")])
                         ELSE JObject([t \in {"type", "parameters"} |->
                                          IF t = "type" THEN JString("dense")
                                          ELSE parameters])])

Descriptors ==
    { Descriptor("a", parameters) : parameters \in CatalogParameters }
    \cup { Descriptor("b", ParametersObject(JNumber(RInt(2)), JNumber(RInt(1)), JNil, JNil)),
           Descriptor("b", ParametersObject(JNil, JNumber(RInt(1)), JNil, JNil)),
           \* no "architecture" member, no "name" member
           JObject([k \in {"name"} |-> JString("b")]),
           JObject([k \in {"provider"} |-> JString("openai")]) }

Catalogs == UNION { [1..n -> Descriptors] : n \in 0..MaxCatalogLen }

CatalogNames == {"", "a", "b", "c"}

CatalogServers ==
    { ServerInfra(MaxGpuCount, RInt(3600), Embodied(1, 2, 3), 2,
                  Gpu(<<RInt(1), RInt(1), Rat(25, 49)>>, <<RInt(1), RInt(1), Rat(25, 49)>>,
                      mem, Embodied(1, 1, 2)),
                  RInt(2)) : mem \in {RInt(0), RInt(2)} }

CatalogRequests ==
    { [OutputTokenCount |-> RInt(1), Latency |-> RInt(4), Geo |-> "USA"] }

NotLoaded == "NewAIModel not called"

\* llm, err := NewAIModel(name, provider)
NewAIModel(name, provider) ==
    /\ pc = "idle"
    /\ LET r == NewAIModelResult(catalog, name, provider)
       IN  /\ aiModel' = r.model
           /\ loadErr' = r.err
           /\ modelsMap' = r.map
           /\ call' = [fn |-> "NewAIModel", args |-> <<name, provider>>,
                       out |-> [val |-> aiModel', err |-> loadErr']]
    /\ UNCHANGED <<server, req, pc, locals, ret, evaluated, stdout, catalog, calls>>

\* ComputeImpacts(llm, server, req), once NewAIModel has returned a model
StartLoaded(r) ==
    /\ loadErr = NoError
    /\ Start(r)

InitCatalog ==
    /\ catalog \in Catalogs
    /\ server \in CatalogServers
    /\ aiModel = NilAIModel
    /\ loadErr = NotLoaded
    /\ modelsMap = NoModelsMap
    /\ req = NoRequest
    /\ pc = "idle"
    /\ locals = NoLocals
    /\ ret = NoReturn
    /\ evaluated = <<>>
    /\ call = NoCall
    /\ stdout = <<>>
    /\ calls = <<>>

NextCatalog ==
    \/ \E name \in CatalogNames, provider \in {"", "openai"} : NewAIModel(name, provider)
    \/ \E r \in CatalogRequests : StartLoaded(r)
    \/ StageGpuRequiredCount
    \/ StageGenerationLatency
    \/ StageGpuEnergy
    \/ StageServerEnergy
    \/ StageRequestEnergy
    \/ StageImpacts
    \/ Return

SpecCatalog == InitCatalog /\ [][NextCatalog]_vars

\* ---------------------------------------------- concurrent ComputeImpacts
\* Several goroutines call ComputeImpacts with the same *AIModel and the same
\* server profile, each with its own request.  A call's request, its local
\* variables and its result are its own (calls[c]); aiModel and server are
\* shared and read by every stage.

NumCalls == 2

CallIds == 1..NumCalls

IdleFrame ==
    [pc |-> "idle", req |-> NoRequest, locals |-> NoLocals, ret |-> NoReturn,
     stdout |-> <<>>]

\* faulty variant: the stage results are kept in package-level variables
StoreFrameShared(frames, c, frame) ==
    [d \in DOMAIN frames |->
        IF d = c THEN frame ELSE [frames[d] EXCEPT !.locals = frame.locals]]

\* faulty variant: the calls read the request through one shared pointer
StoreFrameSharedRequest(frames, c, frame) ==
    [d \in DOMAIN frames |->
        IF d = c THEN frame
        ELSE IF frames[d].pc \in {"idle", "done", "failed"} THEN frames[d]
        ELSE [frames[d] EXCEPT !.req = frame.req]]

\* a step of call c changes the frame of call c
StoreFrame(frames, c, frame) == [frames EXCEPT ![c] = frame]

\* the method a stage calls, on the shared inputs and the call's own frame
StageResult(stage, frame) ==
    CASE stage = "GpuRequiredCount" ->
             GpuRequiredCount(server, frame.locals.modelRequiredMemory)
      [] stage = "GenerationLatency" ->
             GenerationLatency(server, aiModel.Active.Max,
                               frame.req.OutputTokenCount, frame.req.Latency)
      [] stage = "GpuEnergyKWH" ->
             GpuEnergyKWH(server, aiModel.Active.Max, frame.req.OutputTokenCount)
      [] stage = "ServerEnergyBaseline" ->
             ServerEnergyBaseline(server, frame.locals.generationLatency.Max,
                                  frame.locals.gpuRequiredCount)
      [] stage = "RequestEnergy" ->
             RequestEnergy(server, frame.locals.serverEnergyKWH,
                           frame.locals.gpuRequiredCount, frame.locals.gpuEnergyKWH)

\* the local variable a stage assigns its result to
StageAssign(stage, l, val) ==
    CASE stage = "GpuRequiredCount"     -> [l EXCEPT !.gpuRequiredCount = val]
      [] stage = "GenerationLatency"    -> [l EXCEPT !.generationLatency = val]
      [] stage = "GpuEnergyKWH"         -> [l EXCEPT !.gpuEnergyKWH = val]
      [] stage = "ServerEnergyBaseline" -> [l EXCEPT !.serverEnergyKWH = val]
      [] stage = "RequestEnergy"        -> [l EXCEPT !.requestEnergy = val]

StageWrites(stage, frame) ==
    IF stage = "GenerationLatency"
    THEN GenerationLatencyOutput(server, aiModel.Active.Max,
                                 frame.req.OutputTokenCount, frame.req.Latency)
    ELSE <<>>

\* go ComputeImpacts(aiModel, server, r): lines 84-85
GoStart(c, r) ==
    /\ calls[c].pc = "idle"
    /\ calls' = StoreFrame(calls, c,
                   [pc     |-> StageOrder[1],
                    req    |-> r,
                    locals |-> [NoLocals EXCEPT
                                  !.modelRequiredMemory = ModelRequiredMemory(aiModel),
                                  !.electricityMix = GetElectricityMix(r)],
                    ret    |-> NoReturn,
                    stdout |-> <<>>])
    /\ UNCHANGED <<pipelineVars, call, stdout, loaderVars>>

\* call c evaluates its next stage (lines 87-111)
GoStage(c) ==
    /\ calls[c].pc \in {StageOrder[k] : k \in 1..5}
    /\ LET frame == calls[c]
           r == StageResult(frame.pc, frame)
       IN  calls' = StoreFrame(calls, c,
               IF r.err # NoError
               THEN [frame EXCEPT !.pc = "failed",
                                  !.ret = FailureReturn(frame.pc, r.err, frame.locals)]
               ELSE [frame EXCEPT !.pc = NextStage(frame.pc),
                                  !.locals = StageAssign(frame.pc, frame.locals, r.val),
                                  !.stdout = frame.stdout \o StageWrites(frame.pc, frame)])
    /\ UNCHANGED <<pipelineVars, call, stdout, loaderVars>>

\* call c computes the metrics and returns (lines 113-136)
GoImpacts(c) ==
    /\ calls[c].pc = "Impacts"
    /\ calls' = StoreFrame(calls, c,
                   [calls[c] EXCEPT
                      !.pc = NextStage("Impacts"),
                      !.ret = [impacts |-> ComputedImpacts(server, calls[c].locals),
                               err |-> NoError, cause |-> NoError]])
    /\ UNCHANGED <<pipelineVars, call, stdout, loaderVars>>

ConcurrentServers ==
    { ServerInfra(MaxGpuCount, power, Embodied(1, 2, 3), 2,
                  Gpu(<<RInt(1), RInt(1), Rat(25, 49)>>, <<RInt(1), RInt(1), Rat(25, 49)>>,
                      RInt(2), Embodied(1, 1, 2)),
                  RInt(2)) : power \in {RInt(0), RInt(3600)} }

ConcurrentRequests ==
    { [OutputTokenCount |-> RInt(1), Latency |-> RInt(4), Geo |-> "USA"],
      [OutputTokenCount |-> RInt(1), Latency |-> RInt(4), Geo |-> "FRA"],
      [OutputTokenCount |-> RInt(2), Latency |-> RInt(4), Geo |-> "USA"] }

InitConcurrent ==
    /\ aiModel = AIModel(RangeValue(RInt(1), RInt(1)), RangeValue(RInt(1), RInt(1)),
                         RInt(DefaultQuantizationBits))
    /\ server \in ConcurrentServers
    /\ calls = [c \in CallIds |-> IdleFrame]
    /\ req = NoRequest
    /\ pc = "idle"
    /\ locals = NoLocals
    /\ ret = NoReturn
    /\ evaluated = <<>>
    /\ call = NoCall
    /\ stdout = <<>>
    /\ catalog = <<>>
    /\ modelsMap = NoModelsMap
    /\ loadErr = NoError

NextConcurrent ==
    \/ \E c \in CallIds, r \in ConcurrentRequests : GoStart(c, r)
    \/ \E c \in CallIds : GoStage(c)
    \/ \E c \in CallIds : GoImpacts(c)

SpecConcurrent == InitConcurrent /\ [][NextConcurrent]_vars

\* ================================================================ claims

IsZeroRange(r) == r.Min = RZero /\ r.Max = RZero

\* request energy and every usage / embodied / total interval are [0,0]
IsAllZero(i) ==
    /\ IsZeroRange(i.Energy)
    /\ \A m \in Metrics :
          /\ IsZeroRange(i[m].RequestImpact)
          /\ IsZeroRange(i[m].EmbodiedImpact)
          /\ IsZeroRange(i[m].TotalImpact)

\* C1: whenever a stage of ComputeImpacts fails, the call returns an error
\* together with the all-zero Impacts value, whatever the earlier stages had
\* already computed.
C1_NoPartialResult ==
    pc = "failed" => ret.err # NoError /\ IsAllZero(ret.impacts)

\* a call that failed at the server-energy stage, after the accelerator
\* count, the latency and the accelerator energy had been computed
C1_Witness ==
    /\ pc = "failed"
    /\ ret.err = "failed to get server energy"
    /\ locals.gpuRequiredCount > 0
    /\ RLt(RZero, locals.generationLatency.Max)
    /\ RLt(RZero, locals.gpuEnergyKWH.Max)
    /\ IsAllZero(ret.impacts)

\* The outcome of stage k (1..5) of the fixed order on the call's inputs, with
\* the earlier stages' results as the later stages' arguments.
StageOutcome(k) ==
    LET count   == GpuRequiredCount(server, ModelRequiredMemory(aiModel))
        latency == GenerationLatency(server, aiModel.Active.Max,
                                     req.OutputTokenCount, req.Latency)
        energy  == GpuEnergyKWH(server, aiModel.Active.Max, req.OutputTokenCount)
        srv     == ServerEnergyBaseline(server, latency.val.Max, count.val)
    IN  CASE k = 1 -> count
          [] k = 2 -> latency
          [] k = 3 -> energy
          [] k = 4 -> srv
          [] k = 5 -> RequestEnergy(server, srv.val, count.val, energy.val)

FailingStages == {k \in 1..5 : StageOutcome(k).err # NoError}

EarliestFailingStage ==
    CHOOSE k \in FailingStages : \A j \in FailingStages : k <= j

\* C2: the stages are evaluated in the order accelerator count, generation
\* latency, accelerator energy, server baseline energy, request energy; the
\* returned error names the earliest stage of that order that fails on the
\* inputs, and no later stage has been evaluated.
C2_EarliestFailureReported ==
    /\ pc = "failed" =>
          /\ FailingStages # {}
          /\ ret.err = StageError(StageOrder[EarliestFailingStage])
          /\ evaluated = SubSeq(StageOrder, 1, EarliestFailingStage)
    /\ pc = "done" => FailingStages = {} /\ evaluated = StageOrder
    /\ \E k \in 0..Len(StageOrder) : evaluated = SubSeq(StageOrder, 1, k)

\* the inputs violate the preconditions of the latency and of the energy
\* stage at once; the call stopped at the latency stage
C2_Witness ==
    /\ pc = "failed"
    /\ {2, 3} \subseteq FailingStages
    /\ ret.err = "failed to get generation latency"
    /\ evaluated = <<"GpuRequiredCount", "GenerationLatency">>

WellFormed(r) == RLe(RZero, r.Min) /\ RLe(r.Min, r.Max)

\* C5: on every successful ComputeImpacts, requestEnergy and each metric's
\* usage, embodied and total interval satisfy 0 <= min <= max, for every
\* server profile the stages accept (any DatacenterPue, HardwareLifespan and
\* embodied-impact constants).
C5_IntervalsWellFormed ==
    pc = "done" =>
        /\ WellFormed(ret.impacts.Energy)
        /\ \A m \in Metrics :
              /\ WellFormed(ret.impacts[m].RequestImpact)
              /\ WellFormed(ret.impacts[m].EmbodiedImpact)
              /\ WellFormed(ret.impacts[m].TotalImpact)

\* ------------------------------------------- claims about single methods
\* These are stated on the record of a direct call: call.args are the
\* arguments, call.out the (value, error) pair the method returned.

Positive(x) == RLt(RZero, x)

\* confidenceInterval(m, s, n) = [max(0, n*(m - 1.96 s)), n*(m + 1.96 s)]
ConfidenceInterval(m, s, n) ==
    LET half == RMul(Rat(196, 100), s)
        lo   == RSub(RMul(n, m), RMul(n, half))
        hi   == RAdd(RMul(n, m), RMul(n, half))
    IN  RangeValue(IF RLt(lo, RZero) THEN RZero ELSE lo, hi)

IsLatencyCall == call.fn = "GenerationLatency"

\* activeParameters, outputTokenCount, measuredLatencySeconds, latencyAlpha,
\* latencyBeta, latencyStdev, availableAcceleratorCount, powerConsumptionKW
LatencyInputs ==
    <<call.args[1], call.args[2], call.args[3],
      server.Gpu.LatencyAlpha, server.Gpu.LatencyBeta, server.Gpu.LatencyStdev,
      RInt(server.AvailableGpuCount), server.PowerConsumptionKW>>

LatencyInputsValid == \A i \in 1..8 : Positive(LatencyInputs[i])

LatencyCandidate ==
    ConfidenceInterval(
        RAdd(RMul(server.Gpu.LatencyAlpha, call.args[1]), server.Gpu.LatencyBeta),
        server.Gpu.LatencyStdev, call.args[2])

Measured == RangeValue(call.args[3], call.args[3])

\* C3: for valid inputs GenerationLatency returns the candidate interval
\* unchanged if candidate.max < measured latency, and in every other case
\* (candidate.max equal to or greater than it) [measured, measured].
C3_LatencyRule ==
    IsLatencyCall /\ LatencyInputsValid =>
        call.out.val = IF RLt(LatencyCandidate.Max, call.args[3])
                       THEN LatencyCandidate
                       ELSE Measured

\* candidate.max equals the measured latency, and the measurement overrides
C3_Witness ==
    /\ IsLatencyCall
    /\ LatencyInputsValid
    /\ LatencyCandidate.Max = call.args[3]
    /\ call.out.val = Measured

\* C4 as stated: the result collapses to [measured, measured] exactly when the
\* candidate's upper bound exceeds the measured latency, and is the candidate
\* unchanged in every other case, equality included.
C4_CollapseOnlyWhenExceeded ==
    IsLatencyCall /\ LatencyInputsValid =>
        call.out.val = IF RLt(call.args[3], LatencyCandidate.Max)
                       THEN Measured
                       ELSE LatencyCandidate

\* C4 as amended: the result collapses to [measured, measured] exactly when
\* the candidate's upper bound equals or exceeds the measured latency; when it
\* is strictly below, the candidate is returned unchanged.
C4_CollapseWhenNotBelow ==
    IsLatencyCall /\ LatencyInputsValid =>
        /\ (call.out.val = Measured) <=> RLe(call.args[3], LatencyCandidate.Max)
        /\ RLt(LatencyCandidate.Max, call.args[3]) =>
               call.out.val = LatencyCandidate

\* the upper bound equals the measured latency and the result is not the
\* candidate: its lower bound was raised to the measured latency
C4_Witness ==
    /\ IsLatencyCall
    /\ LatencyInputsValid
    /\ LatencyCandidate.Max = call.args[3]
    /\ RLt(LatencyCandidate.Min, call.args[3])
    /\ call.out.val = Measured
    /\ call.out.val # LatencyCandidate

IsEnergyCall == call.fn = "GpuEnergyKWH"

EnergyInputsValid ==
    /\ Positive(call.args[1])
    /\ Positive(call.args[2])
    /\ Positive(server.Gpu.EnergyAlpha)
    /\ Positive(server.Gpu.EnergyBeta)
    /\ Positive(server.Gpu.EnergyStdev)

EnergyMean == RAdd(RMul(server.Gpu.EnergyAlpha, call.args[1]), server.Gpu.EnergyBeta)

\* C6: for valid inputs GpuEnergyKWH returns
\* [max(0, n*(m - 1.96 s)), n*(m + 1.96 s)] with m = energyAlpha*active +
\* energyBeta, s = energyStdev, n = outputTokenCount; the lower bound is 0
\* whenever m < 1.96 s and is never negative.
C6_AcceleratorEnergy ==
    IsEnergyCall /\ EnergyInputsValid =>
        /\ call.out.err = NoError
        /\ call.out.val =
               ConfidenceInterval(EnergyMean, server.Gpu.EnergyStdev, call.args[2])
        /\ RLe(RZero, call.out.val.Min)
        /\ RLt(EnergyMean, RMul(Rat(196, 100), server.Gpu.EnergyStdev)) =>
               call.out.val.Min = RZero

\* a valid call whose mean is below 1.96 stdev: the lower bound is floored
C6_Witness ==
    /\ IsEnergyCall
    /\ EnergyInputsValid
    /\ RLt(EnergyMean, RMul(Rat(196, 100), server.Gpu.EnergyStdev))
    /\ call.out.val.Min = RZero
    /\ Positive(call.out.val.Max)

\* C7: GenerationLatency fails, returning the zero interval and an error,
\* whenever any of its eight inputs is <= 0, and succeeds whenever all of them
\* are > 0.
C7_LatencyValidation ==
    IsLatencyCall =>
        IF LatencyInputsValid
        THEN call.out.err = NoError
        ELSE call.out.err # NoError /\ IsZeroRange(call.out.val)

\* only the server power is not positive, and the call failed
C7_Witness ==
    /\ IsLatencyCall
    /\ ~Positive(server.PowerConsumptionKW)
    /\ \A i \in 1..7 : Positive(LatencyInputs[i])
    /\ call.out.err # NoError
    /\ IsZeroRange(call.out.val)

IsCountCall == call.fn = "GpuRequiredCount"

\* C8: GpuRequiredCount fails with result 0 if modelMemoryGB <= 0 or
\* AvailMemoryGB <= 0; otherwise it returns the least integer n >= 1 with
\* n * AvailMemoryGB >= modelMemoryGB; 80/80 gives 1 and 80/30 gives 3.
C8_RequiredCount ==
    IsCountCall =>
        LET mem   == call.args[1]
            avail == server.Gpu.AvailMemoryGB
            n     == call.out.val
        IN  IF ~Positive(mem) \/ ~Positive(avail)
            THEN call.out.err # NoError /\ n = 0
            ELSE /\ call.out.err = NoError
                 /\ n >= 1
                 /\ RLe(mem, RMul(RInt(n), avail))
                 /\ RLt(RMul(RInt(n - 1), avail), mem)
                 /\ (mem = RInt(80) /\ avail = RInt(80)) => n = 1
                 /\ (mem = RInt(80) /\ avail = RInt(30)) => n = 3

\* 80 GB on accelerators of 30 GB: rounded up to 3
C8_Witness ==
    /\ IsCountCall
    /\ call.args[1] = RInt(80)
    /\ server.Gpu.AvailMemoryGB = RInt(30)
    /\ call.out = [val |-> 3, err |-> NoError]

IsRequestEnergyCall == call.fn = "RequestEnergy"

\* C9: RequestEnergy fails with the zero interval whenever serverEnergyKWh
\* <= 0, acceleratorsRequired < 1, acceleratorsRequired > the available
\* count, or a bound of the accelerator energy range is negative; otherwise
\* each bound is DatacenterPue * (serverEnergyKWh + acceleratorsRequired * bound).
C9_RequestEnergy ==
    IsRequestEnergyCall =>
        LET se == call.args[1]
            n  == call.args[2]
            e  == call.args[3]
        IN  IF \/ ~Positive(se)
               \/ n < 1
               \/ n > server.AvailableGpuCount
               \/ RLt(e.Min, RZero)
               \/ RLt(e.Max, RZero)
            THEN call.out.err # NoError /\ IsZeroRange(call.out.val)
            ELSE /\ call.out.err = NoError
                 /\ call.out.val.Min =
                        RAdd(RMul(server.DatacenterPue, se),
                             RMul(server.DatacenterPue, RMul(RInt(n), e.Min)))
                 /\ call.out.val.Max =
                        RAdd(RMul(server.DatacenterPue, se),
                             RMul(server.DatacenterPue, RMul(RInt(n), e.Max)))

\* more accelerators required than available, everything else valid: fails
C9_Witness ==
    /\ IsRequestEnergyCall
    /\ Positive(call.args[1])
    /\ call.args[2] >= 1
    /\ call.args[2] > server.AvailableGpuCount
    /\ RLe(RZero, call.args[3].Min)
    /\ RLe(RZero, call.args[3].Max)
    /\ call.out.err # NoError
    /\ IsZeroRange(call.out.val)

IsBaselineCall == call.fn = "ServerEnergyBaseline"

\* C10: ServerEnergyBaseline fails with result 0 whenever latencySeconds <= 0,
\* server power <= 0 or acceleratorsRequired is outside [1, available count];
\* otherwise it returns (latencySeconds/3600) * serverPowerKW *
\* (acceleratorsRequired / availableAcceleratorCount).
C10_ServerEnergyBaseline ==
    IsBaselineCall =>
        LET lat == call.args[1]
            n   == call.args[2]
        IN  IF \/ ~Positive(lat)
               \/ ~Positive(server.PowerConsumptionKW)
               \/ n < 1
               \/ n > server.AvailableGpuCount
            THEN call.out.err # NoError /\ call.out.val = RZero
            ELSE /\ call.out.err = NoError
                 /\ call.out.val =
                        RDiv(RMul(RMul(lat, server.PowerConsumptionKW), RInt(n)),
                             RInt(3600 * server.AvailableGpuCount))

\* a successful call that occupies only a part of the server's accelerators
C10_Witness ==
    /\ IsBaselineCall
    /\ call.out.err = NoError
    /\ call.args[2] < server.AvailableGpuCount
    /\ Positive(call.out.val)

\* ------------------------------------------------ linearity of RequestEnergy

PueFactors == {RInt(2), RInt(3), Rat(1, 2), RInt(-1)}

\* the same call with one more accelerator
OneMoreAccelerator ==
    RequestEnergy(server, call.args[1], call.args[2] + 1, call.args[3])

\* the same call on a profile whose DatacenterPue is k times as large
PueScaled(k) ==
    RequestEnergy([server EXCEPT !.DatacenterPue = RMul(k, server.DatacenterPue)],
                  call.args[1], call.args[2], call.args[3])

\* C11: for a successful RequestEnergy call, one more required accelerator
\* (still within the available count) raises each bound of the result by
\* exactly DatacenterPue times the corresponding bound of the accelerator
\* energy, and a DatacenterPue k times as large gives bounds k times as large.
C11_RequestEnergyLinear ==
    (IsRequestEnergyCall /\ call.out.err = NoError) =>
        /\ call.args[2] + 1 <= server.AvailableGpuCount =>
              /\ OneMoreAccelerator.err = NoError
              /\ RSub(OneMoreAccelerator.val.Min, call.out.val.Min) =
                     RMul(server.DatacenterPue, call.args[3].Min)
              /\ RSub(OneMoreAccelerator.val.Max, call.out.val.Max) =
                     RMul(server.DatacenterPue, call.args[3].Max)
        /\ \A k \in PueFactors :
              /\ PueScaled(k).err = NoError
              /\ PueScaled(k).val.Min = RMul(k, call.out.val.Min)
              /\ PueScaled(k).val.Max = RMul(k, call.out.val.Max)

\* a successful call that leaves room for one more accelerator, with a
\* non-degenerate accelerator energy and a PUE other than 0 and 1
C11_Witness ==
    /\ IsRequestEnergyCall
    /\ call.out.err = NoError
    /\ call.args[2] + 1 <= server.AvailableGpuCount
    /\ call.args[3].Min # call.args[3].Max
    /\ Positive(call.args[3].Min)
    /\ server.DatacenterPue = Rat(6, 5)
    /\ OneMoreAccelerator.val.Max # call.out.val.Max

\* ------------------------------------------------------ parseRangeValue

IsParseCall == call.fn = "parseRangeValue"

ParsedField == call.args[1]

\* the bound `key` of a range object is present / present and a number
HasBound(key) ==
    ParsedField.type = "object" /\ key \in DOMAIN ParsedField.members

HasNumber(key) == HasBound(key) /\ ParsedField.members[key].type = "number"

Degenerate(v) == [val |-> RangeValue(v, v), err |-> NoError]

C13_ParseFailures ==
    (IsParseCall /\ ParsedField # JNil) =>
        LET mismatch == ParsedField.type \notin {"number", "object"}
            missing  == ParsedField.type = "object"
                            /\ ~HasBound("min") /\ ~HasBound("max")
            badBound == \E key \in {"min", "max"} : HasBound(key) /\ ~HasNumber(key)
        IN  /\ (mismatch \/ missing \/ badBound) <=> call.out.err # NoError
            /\ call.out.err # NoError => IsZeroRange(call.out.val)
            /\ mismatch => call.out.err = "unexpected type: " \o ParsedField.type
            /\ missing => call.out.err = "min and max values are missing"

\* a range object whose max is a number and whose min is not
C13_Witness ==
    /\ IsParseCall
    /\ HasNumber("max")
    /\ HasBound("min")
    /\ ~HasNumber("min")
    /\ call.out.err = "failed to parse min value"
    /\ IsZeroRange(call.out.val)

\* ----------------------------------------------------- the loaded catalog

\* NewAIModel has handed out a model that the catalog names
LoadedByName == loadErr = NoError /\ aiModel.name # ""

DescriptorName(i) ==
    IF "name" \in DOMAIN catalog[i].members THEN catalog[i].members["name"].str ELSE ""

\* the positions of the descriptors with the given name
Named(name) == {i \in 1..Len(catalog) : DescriptorName(i) = name}

\* the last descriptor of the catalog with the name of the loaded model
LoadedDescriptor ==
    catalog[CHOOSE i \in Named(aiModel.name) : \A j \in Named(aiModel.name) : j <= i]

\* the keys of the "parameters" object of the loaded descriptor
LoadedKeys ==
    LET d == LoadedDescriptor.members
    IN  IF "architecture" \notin DOMAIN d THEN {}
        ELSE IF "parameters" \notin DOMAIN d["architecture"].members THEN {}
        ELSE IF d["architecture"].members["parameters"].type # "object" THEN {}
        ELSE DOMAIN d["architecture"].members["parameters"].members

Returned == pc \in {"done", "failed"}

FailedAt(stage) == pc = "failed" /\ ret.err = StageError(stage)

\* the accelerator-count stage accepts the loaded model on this profile
CountStagePasses ==
    GpuRequiredCount(server, ModelRequiredMemory(aiModel)).err = NoError

\* what the claim says of a model whose `active` is absent: [0,0], and
\* ComputeImpacts fails at the generation-latency stage (unless the
\* accelerator-count stage before it has already failed)
AbsentActiveFails ==
    "active" \notin LoadedKeys =>
        /\ IsZeroRange(aiModel.Active)
        /\ Returned =>
              IF CountStagePasses
              THEN FailedAt("GenerationLatency")
              ELSE FailedAt("GpuRequiredCount")

\* C14 as stated: a descriptor without `total` (without `active`) is loaded
\* with total (active) = [0,0], and ComputeImpacts on the model never succeeds:
\* without `total` it fails at the accelerator-count stage, without `active`
\* at the generation-latency stage.
C14_AbsentFieldIsZero ==
    LoadedByName =>
        /\ "total" \notin LoadedKeys =>
              /\ IsZeroRange(aiModel.Total)
              /\ Returned => FailedAt("GpuRequiredCount")
        /\ AbsentActiveFails

\* C14 as amended: the statement about `total` holds for the descriptors whose
\* "parameters" object has no `total` and no bare min or max of its own; with
\* a bare min or max (the legacy form) the total is the range parsed from them.
C14_AbsentFieldIsZeroUnlessLegacy ==
    LoadedByName =>
        /\ ("total" \notin LoadedKeys /\ LoadedKeys \cap {"min", "max"} = {}) =>
              /\ IsZeroRange(aiModel.Total)
              /\ Returned => FailedAt("GpuRequiredCount")
        /\ ("total" \notin LoadedKeys /\ LoadedKeys \cap {"min", "max"} # {}) =>
              aiModel.Total = parseRangeValue(
                  LoadedDescriptor.members["architecture"].members["parameters"]).val
        /\ AbsentActiveFails

\* a model without `total` and without bare bounds has failed at the first stage
C14_Witness ==
    /\ LoadedByName
    /\ "total" \notin LoadedKeys
    /\ "active" \in LoadedKeys
    /\ LoadedKeys \cap {"min", "max"} = {}
    /\ server.Gpu.AvailMemoryGB = RInt(2)
    /\ FailedAt("GpuRequiredCount")

AllNames == {DescriptorName(i) : i \in 1..Len(catalog)}

LastNamed(name) == CHOOSE i \in Named(name) : \A j \in Named(name) : j <= i

\* C15: the map built from a catalog has exactly one entry per distinct name
\* in the descriptor list, holding the model of the last descriptor with that
\* name; a repeated name is not an error: loading fails only if NewAIModel
\* rejects its arguments or some descriptor does not parse.
C15_LastDescriptorWins ==
    /\ loadErr = NoError =>
          /\ DOMAIN modelsMap = AllNames
          /\ \A name \in AllNames :
                 modelsMap[name] = FetchAIModel(catalog[LastNamed(name)]).val
    /\ loadErr \notin {NoError, NotLoaded,
                       "name cannot be empty", "provider cannot be empty"} =>
          \E i \in 1..Len(catalog) : FetchAIModel(catalog[i]).err # NoError

\* two descriptors with one name and different totals: the map has the second
C15_Witness ==
    /\ loadErr = NoError
    /\ Len(catalog) = 2
    /\ AllNames = {"b"}
    /\ FetchAIModel(catalog[1]).val.Total # FetchAIModel(catalog[2]).val.Total
    /\ DOMAIN modelsMap = {"b"}
    /\ modelsMap["b"].Total = FetchAIModel(catalog[2]).val.Total

\* C16: every model that NewAIModel hands out has quantizationBits = 8 (the
\* catalog never sets it), so the memory ComputeImpacts requires for it is
\* 1.2 * Total.Max * 8 / 8; the entries of the map keep the unset value: the
\* default is applied to the copy that is handed out.
C16_DefaultQuantization ==
    loadErr = NoError =>
        /\ aiModel.quantizationBits = RInt(8)
        /\ pc # "idle" =>
              locals.modelRequiredMemory =
                  RDiv(RMul(RMul(Rat(12, 10), aiModel.Total.Max), RInt(8)), RInt(8))
        /\ \A name \in DOMAIN modelsMap : modelsMap[name].quantizationBits = RZero

\* ComputeImpacts runs on a loaded model with Total.Max = 2: 2.4 GB
C16_Witness ==
    /\ LoadedByName
    /\ aiModel.Total.Max = RInt(2)
    /\ pc = "GenerationLatency"
    /\ locals.modelRequiredMemory = Rat(12, 5)
    /\ modelsMap[aiModel.name].quantizationBits = RZero

\* ------------------------------------------------- concurrent calls

HasReturned(c) == calls[c].pc \in {"done", "failed"}

\* what ComputeImpacts returns for a model and request r on the server: the
\* stages in the order of the source, each on the results before it
ComputeImpactsOf(model, r) ==
    LET mem     == ModelRequiredMemory(model)
        count   == GpuRequiredCount(server, mem)
        latency == GenerationLatency(server, model.Active.Max,
                                     r.OutputTokenCount, r.Latency)
        energy  == GpuEnergyKWH(server, model.Active.Max, r.OutputTokenCount)
        srv     == ServerEnergyBaseline(server, latency.val.Max, count.val)
        total   == RequestEnergy(server, srv.val, count.val, energy.val)
        failure(stage, cause) ==
            [impacts |-> ZeroImpacts, err |-> StageError(stage), cause |-> cause]
    IN  IF count.err # NoError THEN failure("GpuRequiredCount", count.err)
        ELSE IF latency.err # NoError THEN failure("GenerationLatency", latency.err)
        ELSE IF energy.err # NoError THEN failure("GpuEnergyKWH", energy.err)
        ELSE IF srv.err # NoError THEN failure("ServerEnergyBaseline", srv.err)
        ELSE IF total.err # NoError THEN failure("RequestEnergy", total.err)
        ELSE [impacts |-> ComputedImpacts(server,
                              [modelRequiredMemory |-> mem,
                               electricityMix      |-> GetElectricityMix(r),
                               gpuRequiredCount    |-> count.val,
                               generationLatency   |-> latency.val,
                               gpuEnergyKWH        |-> energy.val,
                               serverEnergyKWH     |-> srv.val,
                               requestEnergy       |-> total.val]),
              err |-> NoError, cause |-> NoError]

\* what ComputeImpacts returns for request r when no other call is running
ComputeImpactsAlone(r) == ComputeImpactsOf(aiModel, r)

C18_ConcurrentCallsIsolated ==
    \A c \in CallIds :
        HasReturned(c) =>
            /\ calls[c].ret = ComputeImpactsAlone(calls[c].req)
            /\ calls[c].pc = "done" <=> calls[c].ret.err = NoError

\* a call has returned its result while a call with another request is
\* between two stages
C18_Witness ==
    \E c, d \in CallIds :
        /\ calls[c].pc = "done"
        /\ calls[d].pc = "ServerEnergyBaseline"
        /\ calls[c].req.OutputTokenCount # calls[d].req.OutputTokenCount
        /\ calls[c].ret = ComputeImpactsAlone(calls[c].req)
        /\ calls[c].ret.impacts.Energy # ZeroRange

\* requests that differ in nothing but the geography
SameButGeo(r1, r2) ==
    /\ r1.OutputTokenCount = r2.OutputTokenCount
    /\ r1.Latency = r2.Latency

\* C20: every request gets the same electricity mix, whatever its geography,
\* and two calls whose requests differ only in the geography return the same
\* outcome.
C20_GeographyIndependent ==
    \A c, d \in CallIds :
        /\ (calls[c].pc # "idle" /\ calls[d].pc # "idle") =>
               calls[c].locals.electricityMix = calls[d].locals.electricityMix
        /\ (HasReturned(c) /\ HasReturned(d)
               /\ SameButGeo(calls[c].req, calls[d].req)) =>
               /\ calls[c].pc = calls[d].pc
               /\ calls[c].ret = calls[d].ret

\* a call for USA and a call for FRA have succeeded with the same impacts
C20_Witness ==
    \E c, d \in CallIds :
        /\ calls[c].req.Geo = "USA"
        /\ calls[d].req.Geo = "FRA"
        /\ SameButGeo(calls[c].req, calls[d].req)
        /\ calls[c].pc = "done"
        /\ calls[d].pc = "done"
        /\ calls[c].ret = calls[d].ret
        /\ Positive(calls[c].ret.impacts.PE.RequestImpact.Max)

\* ------------------------------------------------------------ side effects

\* C19: no step of ComputeImpacts changes the model, the profile or the
\* request it was given; no stage writes output; and once the caller has
\* taken the result nothing of the call is kept.
C19_SideEffectFree ==
    [][ /\ aiModel' = aiModel
        /\ server' = server
        /\ (pc # "idle" /\ pc' # "idle") => req' = req
        /\ Len(stdout') <= Len(stdout)
        /\ pc' = "idle" => (locals' = NoLocals /\ ret' = NoReturn /\ stdout' = <<>>)
      ]_vars

\* --------------------------------------------------- the embodied impacts

\* the share of the hardware's manufacturing footprint of a metric that the
\* request occupies
SharedEmbodied(metric) ==
    RAdd(RDiv(RMul(RInt(locals.gpuRequiredCount), server.EmbodiedImpact[metric]),
              RInt(server.AvailableGpuCount)),
         RMul(RInt(locals.gpuRequiredCount), server.Gpu.EmbodiedImpact[metric]))

\* C21: on a successful ComputeImpacts, for each metric, the embodied impact
\* is (latency bound / HardwareLifespan) * sharedEmbodied for the min and the
\* max bound, with sharedEmbodied = (required/available) * the server's
\* constant of that metric + required * the accelerator's constant of that
\* metric, and the total is usage + embodied bound by bound.
C21_EmbodiedImpact ==
    pc = "done" =>
        \A metric \in Metrics :
            LET i == ret.impacts[metric]
                lifespan == RInt(server.HardwareLifespan)
            IN  /\ i.EmbodiedImpact.Min =
                       RDiv(RMul(locals.generationLatency.Min, SharedEmbodied(metric)),
                            lifespan)
                /\ i.EmbodiedImpact.Max =
                       RDiv(RMul(locals.generationLatency.Max, SharedEmbodied(metric)),
                            lifespan)
                /\ i.TotalImpact.Min = RAdd(i.RequestImpact.Min, i.EmbodiedImpact.Min)
                /\ i.TotalImpact.Max = RAdd(i.RequestImpact.Max, i.EmbodiedImpact.Max)

\* a success that occupies a part of the accelerators, with a latency
\* interval that is not degenerate and embodied impacts that differ by metric
C21_Witness ==
    /\ pc = "done"
    /\ locals.gpuRequiredCount < server.AvailableGpuCount
    /\ RLt(locals.generationLatency.Min, locals.generationLatency.Max)
    /\ RLt(ret.impacts.GWP.EmbodiedImpact.Min, ret.impacts.GWP.EmbodiedImpact.Max)
    /\ ret.impacts.GWP.EmbodiedImpact # ret.impacts.ADPe.EmbodiedImpact
    /\ ret.impacts.PE.EmbodiedImpact # ret.impacts.GWP.EmbodiedImpact

\* ------------------------------------------------- all-or-nothing loading

\* a number, or an object with at least one bound whose bounds are numbers
RangeParses(value) ==
    \/ value.type = "number"
    \/ /\ value.type = "object"
       /\ {"min", "max"} \cap DOMAIN value.members # {}
       /\ \A k \in {"min", "max"} \cap DOMAIN value.members :
              value.members[k].type = "number"

\* the "parameters" object of descriptor i, or JNil
DescriptorParameters(i) ==
    LET d == catalog[i].members
    IN  IF "architecture" \notin DOMAIN d THEN JNil
        ELSE IF "parameters" \notin DOMAIN d["architecture"].members THEN JNil
        ELSE d["architecture"].members["parameters"]

\* descriptor i has a total, an active or a legacy bare range that does not
\* parse
RangeFails(i) ==
    LET p == DescriptorParameters(i)
    IN  /\ p.type = "object"
        /\ \/ "total" \in DOMAIN p.members /\ ~RangeParses(p.members["total"])
           \/ "active" \in DOMAIN p.members /\ ~RangeParses(p.members["active"])
           \/ {"min", "max"} \cap DOMAIN p.members # {} /\ ~RangeParses(p)

NameErrors == {"name cannot be empty", "provider cannot be empty"}

\* C22: loading is all-or-nothing: when a total, active or legacy bare range
\* of any one descriptor of the catalog fails to parse, NewAIModel returns an
\* error, no model and no map, whatever the other descriptors are.
C22_AllOrNothing ==
    (loadErr # NotLoaded /\ \E i \in 1..Len(catalog) : RangeFails(i)) =>
        /\ loadErr # NoError
        /\ aiModel = NilAIModel
        /\ modelsMap = NoModelsMap

\* the catalog was read, its first descriptor is valid and named as asked
\* for, and its second descriptor does not parse
C22_Witness ==
    /\ loadErr \notin {NotLoaded, NoError} \cup NameErrors
    /\ Len(catalog) = 2
    /\ ~RangeFails(1)
    /\ RangeFails(2)
    /\ DescriptorName(1) = "b"
    /\ aiModel = NilAIModel

\* ------------------------------------------------ the order of validation

\* the error of GenerationLatency for its k-th input (see LatencyInputs)
LatencyViolation ==
    <<"modelActiveParamCount must be greater than 0",
      "outputTokenCount must be greater than 0",
      "requestLatencySecs must be greater than 0",
      "GPU latency parameters must be greater than 0",
      "GPU latency parameters must be greater than 0",
      "GPU latency parameters must be greater than 0",
      "AvailableGpuCount must be greater than 0",
      "PowerConsumptionKW must be greater than 0">>

\* the inputs of the call that are not positive
LatencyViolated == {i \in 1..8 : ~Positive(LatencyInputs[i])}

\* C23: GenerationLatency reports only the first violation in the order
\* activeParameters, outputTokenCount, measured latency, latency regression
\* parameters, availableAcceleratorCount, server power.
C23_FirstViolation ==
    (IsLatencyCall /\ LatencyViolated # {}) =>
        /\ call.out.val = ZeroRange
        /\ call.out.err =
               LatencyViolation[CHOOSE i \in LatencyViolated :
                                    \A j \in LatencyViolated : i <= j]

\* activeParameters = 0 and availableAcceleratorCount = 0: the error is the
\* one of activeParameters
C23_Witness ==
    /\ IsLatencyCall
    /\ call.args[1] = RZero
    /\ server.AvailableGpuCount = 0
    /\ call.out.err = "modelActiveParamCount must be greater than 0"

\* ------------------------------------------- the bounds of the latency

\* C25: every successful GenerationLatency result satisfies
\* 0 <= min <= max <= measured latency and max > 0.
C25_LatencyBounded ==
    (IsLatencyCall /\ call.out.err = NoError) =>
        /\ RLe(RZero, call.out.val.Min)
        /\ RLe(call.out.val.Min, call.out.val.Max)
        /\ RLe(call.out.val.Max, call.args[3])
        /\ Positive(call.out.val.Max)

\* an estimate below the measured latency whose lower bound was clipped at 0
C25_Witness ==
    /\ IsLatencyCall
    /\ call.out.err = NoError
    /\ call.out.val.Min = RZero
    /\ RLt(call.out.val.Min, call.out.val.Max)
    /\ RLt(call.out.val.Max, call.args[3])

\* ------------------------------------------------------ the legacy form

\* the "parameters" value of the loaded descriptor
LoadedParameters ==
    LET d == LoadedDescriptor.members
    IN  IF "architecture" \notin DOMAIN d THEN JNil
        ELSE IF "parameters" \notin DOMAIN d["architecture"].members THEN JNil
        ELSE d["architecture"].members["parameters"]

\* the interval of a range object with numeric bounds: a missing bound is the
\* other one
BareInterval(value) ==
    LET lo == IF "min" \in DOMAIN value.members THEN "min" ELSE "max"
        hi == IF "max" \in DOMAIN value.members THEN "max" ELSE "min"
    IN  RangeValue(value.members[lo].num, value.members[hi].num)

\* C24: a descriptor whose "parameters" value is itself the numeric field is
\* normalised as `total` and `active` are: a single number v is loaded with
\* Total = [v, v], and a range object with the interval of its bounds.
C24_LegacyNormalised ==
    LoadedByName =>
        /\ LoadedParameters.type = "number" =>
               aiModel.Total = RangeValue(LoadedParameters.num, LoadedParameters.num)
        /\ (LoadedKeys \cap {"min", "max"} # {} /\ RangeParses(LoadedParameters)) =>
               aiModel.Total = BareInterval(LoadedParameters)

\* ---------------------------------------------------- unknown model names

IsLoadCall == call.fn = "NewAIModel"

\* the last NewAIModel asked for a name that no descriptor of the file has
UnknownName ==
    /\ IsLoadCall
    /\ call.args[1] # ""
    /\ call.args[2] # ""
    /\ Named(call.args[1]) = {}

\* what the claim says an unknown name gives: no error, a model without
\* name and parameters with 8 bits, on which ComputeImpacts fails at the
\* accelerator-count stage
UnknownNameOutcome ==
    /\ loadErr = NoError
    /\ aiModel = [name |-> "", Total |-> ZeroRange, Active |-> ZeroRange,
                  quantizationBits |-> RInt(8)]
    /\ Returned => FailedAt("GpuRequiredCount")

\* C26: NewAIModel with a non-empty name that is not a key of the map (a name
\* that is only an alias included) returns no error and a model with an empty
\* name, zero Total and Active and quantizationBits 8, on which ComputeImpacts
\* always fails at the accelerator-count stage; only an empty name or an empty
\* provider makes NewAIModel fail.
C26_UnknownName ==
    /\ UnknownName => UnknownNameOutcome
    /\ (IsLoadCall /\ loadErr # NoError) => (call.args[1] = "" \/ call.args[2] = "")

\* C26 as amended: the same for a file whose descriptors all parse; NewAIModel
\* fails for an empty name, an empty provider and for a file with a descriptor
\* that does not parse, and for nothing else.
C26_UnknownNameInParsedCatalog ==
    /\ (UnknownName /\ \A i \in 1..Len(catalog) : ~RangeFails(i)) => UnknownNameOutcome
    /\ (IsLoadCall /\ loadErr # NoError) <=>
           /\ IsLoadCall
           /\ \/ call.args[1] = ""
              \/ call.args[2] = ""
              \/ \E i \in 1..Len(catalog) : RangeFails(i)

\* the name asked for is an alias of a model of the file, and ComputeImpacts
\* on the model handed out has failed
C26_Witness ==
    /\ UnknownName
    /\ \E alias \in CatalogAliases :
           alias.Alias = call.args[1] /\ Named(alias.Name) # {}
    /\ loadErr = NoError
    /\ aiModel.name = ""
    /\ FailedAt("GpuRequiredCount")

\* ------------------------------------------------- only the upper bounds

\* lower bounds to give to the parameter intervals of a model
LowerBounds == {RZero, Rat(1, 2), RInt(1), RInt(2)}

\* C27: ComputeImpacts reads only the upper bounds of the model's parameter
\* intervals: a model that differs from the loaded one only in Total.Min
\* and/or Active.Min has the same outcome on the same server and request.
C27_OnlyUpperBounds ==
    (loadErr = NoError /\ Returned) =>
        \A total \in LowerBounds, active \in LowerBounds :
            ComputeImpactsOf([aiModel EXCEPT !.Total.Min = total,
                                             !.Active.Min = active], req) = ret

\* a success on a model whose two intervals are not degenerate
C27_Witness ==
    /\ loadErr = NoError
    /\ pc = "done"
    /\ RLt(aiModel.Total.Min, aiModel.Total.Max)
    /\ RLt(aiModel.Active.Min, aiModel.Active.Max)

\* --------------------------------------------- failures after three stages

\* the accelerator-count, generation-latency and accelerator-energy stages
\* have succeeded
ThreeStagesPassed == Len(evaluated) > 3

\* C28: GpuRequiredCount does not compare its result with AvailableGpuCount;
\* once the accelerator-count, generation-latency and accelerator-energy
\* stages have succeeded, ComputeImpacts can fail only at the server-baseline
\* stage, for a required count above AvailableGpuCount, and never at the
\* request-energy stage.
C28_OnlyCapacityFailure ==
    /\ (pc = "failed" /\ ThreeStagesPassed) =>
           /\ ret.err = StageError("ServerEnergyBaseline")
           /\ evaluated = SubSeq(StageOrder, 1, 4)
           /\ locals.gpuRequiredCount > server.AvailableGpuCount
    /\ ~FailedAt("RequestEnergy")

\* the count stage has accepted a count above AvailableGpuCount and the
\* server-baseline stage has rejected it
C28_Witness ==
    /\ FailedAt("ServerEnergyBaseline")
    /\ ThreeStagesPassed
    /\ locals.gpuRequiredCount > server.AvailableGpuCount
    /\ server.AvailableGpuCount > 0

\* ------------------------------------------- the measured latency in use

\* the estimate of the generation latency for the request of the run
RequestLatencyCandidate ==
    ConfidenceInterval(
        RAdd(RMul(server.Gpu.LatencyAlpha, aiModel.Active.Max), server.Gpu.LatencyBeta),
        server.Gpu.LatencyStdev, req.OutputTokenCount)

\* the upper bound of the estimate is not below the measured latency
MeasuredOverrides == ~RLt(RequestLatencyCandidate.Max, req.Latency)

\* C29: when the measured latency overrides the estimate, a successful
\* ComputeImpacts has embodied.min = embodied.max for ADPe, GWP and PE, and
\* the width of the request energy is
\* DatacenterPue * gpuRequiredCount * (gpuEnergy.max - gpuEnergy.min).
C29_MeasuredLatencyInUse ==
    (pc = "done" /\ MeasuredOverrides) =>
        /\ \A metric \in Metrics :
               ret.impacts[metric].EmbodiedImpact.Min =
                   ret.impacts[metric].EmbodiedImpact.Max
        /\ RSub(ret.impacts.Energy.Max, ret.impacts.Energy.Min) =
               RMul(RMul(server.DatacenterPue, RInt(locals.gpuRequiredCount)),
                    RSub(locals.gpuEnergyKWH.Max, locals.gpuEnergyKWH.Min))

\* a success on the measured latency, with two accelerators, embodied impacts
\* that are not zero and an accelerator energy that is an interval
C29_Witness ==
    /\ pc = "done"
    /\ MeasuredOverrides
    /\ locals.generationLatency = RangeValue(req.Latency, req.Latency)
    /\ locals.gpuRequiredCount = 2
    /\ RLt(locals.gpuEnergyKWH.Min, locals.gpuEnergyKWH.Max)
    /\ Positive(ret.impacts.GWP.EmbodiedImpact.Min)
    /\ RLt(ret.impacts.Energy.Min, ret.impacts.Energy.Max)

\* --------------------------------------------- more tokens, more impact

\* token counts to compare the request of the run with
MoreTokens == {RInt(n) : n \in 1..MaxTokens + 1} \cup {Rat(5, 4), Rat(3, 2)}

\* every bound of interval b is at least the same bound of interval a
AtLeast(a, b) == RLe(a.Min, b.Min) /\ RLe(a.Max, b.Max)

\* the profile of the claim: positive PUE and lifespan, embodied constants
\* that are not negative
PositiveEconomics ==
    /\ Positive(server.DatacenterPue)
    /\ server.HardwareLifespan > 0
    /\ \A metric \in Metrics :
           /\ RLe(RZero, server.EmbodiedImpact[metric])
           /\ RLe(RZero, server.Gpu.EmbodiedImpact[metric])

\* a successful ComputeImpacts for the model, profile and latency of the run
\* and a token count n that is not below the one of the run
SucceedsWith(n) ==
    /\ RLe(req.OutputTokenCount, n)
    /\ ComputeImpactsOf(aiModel, [req EXCEPT !.OutputTokenCount = n]).err = NoError

ImpactsWith(n) ==
    ComputeImpactsOf(aiModel, [req EXCEPT !.OutputTokenCount = n]).impacts

\* C30: for a fixed model, a fixed latency and a profile with positive PUE,
\* positive lifespan and non-negative embodied constants, ComputeImpacts is
\* monotone in OutputTokenCount: when it succeeds for n1 <= n2, every bound
\* of the request energy and of the usage, embodied and total impact of each
\* metric for n2 is at least the one for n1.
C30_MonotoneInTokens ==
    (pc = "done" /\ PositiveEconomics) =>
        \A n \in MoreTokens :
            SucceedsWith(n) =>
                /\ AtLeast(ret.impacts.Energy, ImpactsWith(n).Energy)
                /\ \A metric \in Metrics :
                       /\ AtLeast(ret.impacts[metric].RequestImpact,
                                  ImpactsWith(n)[metric].RequestImpact)
                       /\ AtLeast(ret.impacts[metric].EmbodiedImpact,
                                  ImpactsWith(n)[metric].EmbodiedImpact)
                       /\ AtLeast(ret.impacts[metric].TotalImpact,
                                  ImpactsWith(n)[metric].TotalImpact)

\* a success on the estimate, and a larger token count that succeeds with a
\* larger request energy and a larger embodied impact
C30_Witness ==
    /\ pc = "done"
    /\ PositiveEconomics
    /\ ~MeasuredOverrides
    /\ \E n \in MoreTokens :
           /\ SucceedsWith(n)
           /\ RLt(ret.impacts.Energy.Min, ImpactsWith(n).Energy.Min)
           /\ RLt(ret.impacts.GWP.EmbodiedImpact.Max,
                  ImpactsWith(n).GWP.EmbodiedImpact.Max)

====
